---------------------------- MODULE Spec2Model ----------------------------
(***************************************************************************)
(* A model of the PDF -> Markdown conversion engine of                     *)
(* src/backend/services/converter.py (class DocumentConverter).            *)
(*                                                                         *)
(* Text is a sequence of one-character strings, so that trimming,          *)
(* splitting, joining and the regular expressions of the source are        *)
(* computed and not assumed.  Coordinates and font sizes are integers;     *)
(* the products with 0.15 / 0.85 / 1.3 / 1.15 / 1.08 are compared exactly, *)
(* in hundredths.                                                          *)
(***************************************************************************)
EXTENDS Integers, Sequences, FiniteSets, TLC

VARIABLES
    \* ---- convert_pdf_to_markdown ----
    doc,                \* the PDF: a sequence of pages
    pc,                 \* position in convert_pdf_to_markdown
    plumber,            \* pdfplumber handle: "unopened" | "open" | "closed"
    pymupdf,            \* PyMuPDF handle:    "unopened" | "open" | "closed"
    exc,                \* the exception in flight: "none" or where it was raised
    all_pages_text,     \* Step 0: the pages that have characters
    header_footer_text, \* the set returned by _detect_headers_footers
    page_num,           \* index (from 1) of the page of the main loop
    tables_md, table_bboxes, images_md, image_bboxes, text_md,
    md_content,         \* the Markdown accumulated in memory
    md_file,            \* the Markdown file on disk
    md_writes,          \* how often the Markdown file was opened for writing
    image_files,        \* names of the image files written
    result,             \* "running" | "returned" | "raised"
    \* ---- _table_to_markdown, called alone ----
    table_data, md_table,
    \* ---- _group_lines_into_blocks, called alone ----
    lines, avg_font_size, merged_lines, blocks,
    \* ---- calls of convert_pdf_to_markdown on one DocumentConverter ----
    converter,          \* the fields of the DocumentConverter
    parked,             \* the locals and output of the call that is not running
    active,             \* which of the two calls is running: 1 | 2
    \* ---- _merge_content_by_position, called alone ----
    merge_text, merge_tables, merge_images, page_content,
    \* ---- _post_process_markdown, called alone ----
    raw_markdown, clean_markdown,
    \* ---- _detect_header and _detect_list_type, called on one line ----
    detected,
    \* ---- _group_chars_into_words and _group_words_into_lines, called alone ----
    filtered_chars, grouped_words, grouped_lines

pipeVars ==
    << doc, pc, plumber, pymupdf, exc, all_pages_text, header_footer_text,
       page_num, tables_md, table_bboxes, images_md, image_bboxes, text_md,
       md_content, md_file, md_writes, image_files, result >>

tableVars == << table_data, md_table >>

blockVars == << lines, avg_font_size, merged_lines, blocks >>

callVars == << converter, parked, active >>

mergeVars == << merge_text, merge_tables, merge_images, page_content >>

postVars == << raw_markdown, clean_markdown >>

unitVars == << detected >>

groupVars == << filtered_chars, grouped_words, grouped_lines >>

helperVars == << mergeVars, postVars, unitVars, groupVars >>

vars == << pipeVars, tableVars, blockVars, callVars, helperVars >>

(***************************************************************************)
(* Python values and string operations.                                    *)
(***************************************************************************)

\* Python's None, in a position that otherwise holds a text.
None == << "<None>" >>

\* str.isspace for the characters of the model.
IsSpace(c) == c \in {" ", "\n", "\t"}

IsDigit(c) == c \in {"0", "1", "2", "3", "4", "5", "6", "7", "8", "9"}

RECURSIVE LStrip(_)
LStrip(s) ==
    IF s # << >> /\ IsSpace(Head(s)) THEN LStrip(Tail(s)) ELSE s

RECURSIVE RStrip(_)
RStrip(s) ==
    IF s # << >> /\ IsSpace(s[Len(s)]) THEN RStrip(SubSeq(s, 1, Len(s) - 1)) ELSE s

\* str.strip()
Strip(s) == RStrip(LStrip(s))

\* sep.join(parts)
RECURSIVE Join(_, _)
Join(parts, sep) ==
    IF parts = << >> THEN << >>
    ELSE IF Len(parts) = 1 THEN parts[1]
    ELSE parts[1] \o sep \o Join(Tail(parts), sep)

\* s[lo..hi].split(c) for a one-character separator: never empty, keeps the
\* empty pieces.  The halves are split and the piece across the middle is
\* glued, which keeps the recursion shallow on a long text.
RECURSIVE SplitRange(_, _, _, _)
SplitRange(s, c, lo, hi) ==
    IF lo > hi THEN << << >> >>
    ELSE IF lo = hi THEN (IF s[lo] = c THEN << << >>, << >> >> ELSE << << s[lo] >> >>)
    ELSE LET mid == (lo + hi) \div 2
             left == SplitRange(s, c, lo, mid)
             right == SplitRange(s, c, mid + 1, hi)
         IN  SubSeq(left, 1, Len(left) - 1)
             \o << left[Len(left)] \o right[1] >>
             \o Tail(right)

Split(s, c) == SplitRange(s, c, 1, Len(s))

\* s.find(c, lo - 1, hi) + 1: the first position of c in s[lo..hi], 0 when
\* there is none.
RECURSIVE FirstIn(_, _, _, _)
FirstIn(s, c, lo, hi) ==
    IF lo > hi THEN 0
    ELSE IF lo = hi THEN (IF s[lo] = c THEN lo ELSE 0)
    ELSE LET mid == (lo + hi) \div 2
             left == FirstIn(s, c, lo, mid)
         IN  IF left # 0 THEN left ELSE FirstIn(s, c, mid + 1, hi)

\* [x] * n
RECURSIVE Repeat(_, _)
Repeat(x, n) == IF n <= 0 THEN << >> ELSE << x >> \o Repeat(x, n - 1)

\* t in s, for texts
Contains(s, t) ==
    \E i \in 1..(Len(s) - Len(t) + 1) : SubSeq(s, i, i + Len(t) - 1) = t

Min(a, b) == IF a <= b THEN a ELSE b

Max(a, b) == IF a >= b THEN a ELSE b

\* Python's order on tuples of numbers (the sort keys).
RECURSIVE KeyLess(_, _)
KeyLess(k1, k2) ==
    IF k1 = << >> \/ k2 = << >> THEN k1 = << >> /\ k2 # << >>
    ELSE IF Head(k1) # Head(k2) THEN Head(k1) < Head(k2)
    ELSE KeyLess(Tail(k1), Tail(k2))

\* sorted(seq, key=...) on a sequence of [key, val]: a stable insertion sort.
RECURSIVE InsertSorted(_, _)
InsertSorted(sorted, x) ==
    IF sorted = << >> THEN << x >>
    ELSE IF KeyLess(x.key, sorted[Len(sorted)].key)
         THEN Append(InsertSorted(SubSeq(sorted, 1, Len(sorted) - 1), x),
                     sorted[Len(sorted)])
         ELSE Append(sorted, x)

RECURSIVE SortedFrom(_, _)
SortedFrom(done, rest) ==
    IF rest = << >> THEN done
    ELSE SortedFrom(InsertSorted(done, Head(rest)), Tail(rest))

SortKeyed(keyed) ==
    LET s == SortedFrom(<< >>, keyed) IN [i \in 1..Len(s) |-> s[i].val]

(***************************************************************************)
(* _table_to_markdown                                                      *)
(***************************************************************************)

\* str(cell).strip() if cell is not None else ""
CleanCell(cell) == IF cell = None THEN << >> ELSE Strip(cell)

CleanRow(row) == [i \in 1..Len(row) |-> CleanCell(row[i])]

\* "| " + " | ".join(cells) + " |"
RowLine(cells) == << "|", " " >> \o Join(cells, << " ", "|", " " >>) \o << " ", "|" >>

\* while len(row) < len(header): row.append("")
PadRow(row, n) == row \o Repeat(<< >>, n - Len(row))

\* row[: len(header)]
Truncate(row, n) == SubSeq(row, 1, Min(Len(row), n))

DataRowLine(row, n) == RowLine(Truncate(PadRow(row, n), n))

_table_to_markdown(data) ==
    IF data = << >> \/ Len(data) < 1 THEN << >>
    ELSE LET cleaned_data == [i \in 1..Len(data) |-> CleanRow(data[i])]
             header == cleaned_data[1]
             md_lines ==
                 << RowLine(header),
                    RowLine(Repeat(<< "-", "-", "-" >>, Len(header))) >>
                 \o [i \in 1..(Len(cleaned_data) - 1) |->
                        DataRowLine(cleaned_data[i + 1], Len(header))]
         IN  Join(md_lines, << "\n" >>)

(***************************************************************************)
(* The regular expressions of the source, as prefix matchers.  A position  *)
(* is an index from 1; a matcher returns the position after the match, or  *)
(* 0 when there is no match.                                               *)
(***************************************************************************)

\* Glyphs that have no ASCII spelling are named.
BulletGlyphs == {"BULLET", "MIDDOT", "WHITEBULLET", "BLACKSQUARE", "WHITESQUARE"}

DashGlyphs == {"ENDASH", "-", "*"}

IsLower(c) ==
    c \in {"a", "b", "c", "d", "e", "f", "g", "h", "i", "j", "k", "l", "m",
           "n", "o", "p", "q", "r", "s", "t", "u", "v", "w", "x", "y", "z"}

\* [ivxlcdm] under re.IGNORECASE
IsRoman(c) ==
    c \in {"i", "v", "x", "l", "c", "d", "m", "I", "V", "X", "L", "C", "D", "M"}

At(s, p) == IF p >= 1 /\ p <= Len(s) THEN s[p] ELSE "<eos>"

\* \d* from p
RECURSIVE DigitsEnd(_, _)
DigitsEnd(s, p) == IF IsDigit(At(s, p)) THEN DigitsEnd(s, p + 1) ELSE p

\* \s* from p
RECURSIVE SpacesEnd(_, _)
SpacesEnd(s, p) == IF IsSpace(At(s, p)) THEN SpacesEnd(s, p + 1) ELSE p

\* [ivxlcdm]* from p
RECURSIVE RomansEnd(_, _)
RomansEnd(s, p) == IF IsRoman(At(s, p)) THEN RomansEnd(s, p + 1) ELSE p

\* (\.\d+)* from p, greedy
RECURSIVE DotGroupsEnd(_, _)
DotGroupsEnd(s, p) ==
    IF At(s, p) = "." /\ DigitsEnd(s, p + 1) > p + 1
    THEN DotGroupsEnd(s, DigitsEnd(s, p + 1))
    ELSE p

\* \s+ from p: the position after it, 0 when no whitespace is at p
SpacesPlus(s, p) == IF IsSpace(At(s, p)) THEN SpacesEnd(s, p) ELSE 0

\* s.count(c)
RECURSIVE Count(_, _)
Count(s, c) ==
    IF s = << >> THEN 0 ELSE (IF Head(s) = c THEN 1 ELSE 0) + Count(Tail(s), c)

\* self.section_number_pattern = ^(\d+(\.\d+)*\.?)$
section_number_pattern(s) ==
    LET d == DigitsEnd(s, 1)
        g == DotGroupsEnd(s, d)
        e == IF At(s, g) = "." THEN g + 1 ELSE g
    IN  d > 1 /\ e = Len(s) + 1

\* self.numbered_header_pattern = ^(\d+(?:\.\d+)+\.?|\d+\.)\s+ : group(1), or
\* << >> when the text does not match.  Whitespace can follow only the
\* longest run of digit groups, so no shorter alternative of the expression
\* matches where the longest does not.
numbered_header_pattern(s) ==
    LET d == DigitsEnd(s, 1)
        g == DotGroupsEnd(s, d)
        e == IF At(s, g) = "." THEN g + 1 ELSE g
    IN  IF d > 1 /\ e > d /\ IsSpace(At(s, e)) THEN SubSeq(s, 1, e - 1) ELSE << >>

(***************************************************************************)
(* _merge_section_numbers                                                  *)
(***************************************************************************)

MergedLine(current_line, next_line) ==
    [ text     |-> Strip(current_line.text) \o << " " >> \o Strip(next_line.text),
      x0       |-> Min(current_line.x0, next_line.x0),
      x1       |-> Max(current_line.x1, next_line.x1),
      top      |-> current_line.top,
      bottom   |-> next_line.bottom,
      size     |-> Max(current_line.size, next_line.size),
      fontname |-> next_line.fontname,
      chars    |-> current_line.chars \o next_line.chars ]

RECURSIVE MergeFrom(_, _, _)
MergeFrom(ls, i, merged) ==
    IF i > Len(ls) THEN merged
    ELSE IF section_number_pattern(Strip(ls[i].text)) /\ i + 1 <= Len(ls)
         THEN MergeFrom(ls, i + 2, Append(merged, MergedLine(ls[i], ls[i + 1])))
         ELSE MergeFrom(ls, i + 1, Append(merged, ls[i]))

\* A variant that goes on from the line it has just merged, so that a
\* number merged into the line before it is merged with its successor too.
RECURSIVE MergeFromChained(_, _, _)
MergeFromChained(ls, i, merged) ==
    IF i > Len(ls) THEN merged
    ELSE IF section_number_pattern(Strip(ls[i].text)) /\ i + 1 <= Len(ls)
         THEN MergeFromChained(ls, i + 1, Append(merged, MergedLine(ls[i], ls[i + 1])))
         ELSE MergeFromChained(ls, i + 1, Append(merged, ls[i]))

_merge_section_numbers_chained(ls) == MergeFromChained(ls, 1, << >>)

_merge_section_numbers(ls) == MergeFrom(ls, 1, << >>)

(***************************************************************************)
(* _detect_header, _is_bold, _is_italic, _detect_list_type                 *)
(***************************************************************************)

\* Thresholds of __init__, in hundredths.
header_size_threshold_large == 130

header_size_threshold_medium == 115

header_size_threshold_small == 108

\* The font names of the model, and what "bold" / "italic" / "oblique" in
\* fontname.lower() gives for each.
FontNames == {"Helvetica", "Helvetica-Bold", "Helvetica-Oblique", "Times-BoldItalic"}

_is_bold(fontname) == fontname \in {"Helvetica-Bold", "Times-BoldItalic"}

_is_italic(fontname) == fontname \in {"Helvetica-Oblique", "Times-BoldItalic"}

\* line["size"] / avg_font_size > threshold, with avg_font_size = num / den
RatioAbove(size, avg, threshold) == size * avg.den * 100 > threshold * avg.num

HeaderLevelOfDots(dot_count) ==
    IF dot_count = 0 THEN 1
    ELSE IF dot_count = 1 THEN 1
    ELSE IF dot_count = 2 THEN 2
    ELSE 3

\* A variant that decides by the size before it looks at the number.
_detect_header_size_first(line, avg, text_length) ==
    LET text == Strip(line.text)
        section_num == numbered_header_pattern(text)
        size_score ==
            IF RatioAbove(line.size, avg, header_size_threshold_large) THEN 3
            ELSE IF RatioAbove(line.size, avg, header_size_threshold_medium) THEN 2
            ELSE IF RatioAbove(line.size, avg, header_size_threshold_small) THEN 1
            ELSE 0
    IN  IF size_score >= 2 THEN [is_header |-> TRUE, level |-> Min(size_score, 3)]
        ELSE IF section_num # << >>
        THEN [is_header |-> TRUE, level |-> HeaderLevelOfDots(Count(section_num, "."))]
        ELSE IF size_score = 1 THEN [is_header |-> TRUE, level |-> 3]
        ELSE [is_header |-> FALSE, level |-> 0]

_detect_header(line, avg, text_length) ==
    LET text == Strip(line.text)
        section_num == numbered_header_pattern(text)
        size_score ==
            IF RatioAbove(line.size, avg, header_size_threshold_large) THEN 3
            ELSE IF RatioAbove(line.size, avg, header_size_threshold_medium) THEN 2
            ELSE IF RatioAbove(line.size, avg, header_size_threshold_small) THEN 1
            ELSE 0
        is_bold == _is_bold(line.fontname)
        is_short == text_length < 100
    IN  IF section_num # << >>
        THEN [is_header |-> TRUE, level |-> HeaderLevelOfDots(Count(section_num, "."))]
        ELSE IF size_score >= 2 THEN [is_header |-> TRUE, level |-> Min(size_score, 3)]
        ELSE IF size_score = 1 /\ (is_bold \/ is_short) THEN [is_header |-> TRUE, level |-> 3]
        ELSE IF is_bold /\ is_short /\ text_length < 50 THEN [is_header |-> TRUE, level |-> 3]
        ELSE [is_header |-> FALSE, level |-> 0]

NotList == [is_list |-> FALSE, marker |-> << >>, indent |-> 0]

ListItem(marker, indent) == [is_list |-> TRUE, marker |-> marker, indent |-> indent]

\* ^\(([ivxlcdm]+)\)\s+ : the position after the closing parenthesis, or 0
RomanMarkerEnd(s) ==
    LET r == RomansEnd(s, 2)
    IN  IF At(s, 1) = "(" /\ r > 2 /\ At(s, r) = ")" /\ IsSpace(At(s, r + 1))
        THEN r + 1 ELSE 0

\* ^(\([a-z]\)|[a-z]\))\s+ : the position after the closing parenthesis, or 0
LetterMarkerEnd(s) ==
    IF At(s, 1) = "(" /\ IsLower(At(s, 2)) /\ At(s, 3) = ")" /\ IsSpace(At(s, 4)) THEN 4
    ELSE IF IsLower(At(s, 1)) /\ At(s, 2) = ")" /\ IsSpace(At(s, 3)) THEN 3
    ELSE 0

\* A variant that tries the letters before the roman numerals.
_detect_list_type_letters_first(raw) ==
    LET text == Strip(raw)
        d == DigitsEnd(text, 1)
    IN  IF Len(text) < 2 THEN NotList
        ELSE IF text[1] \in BulletGlyphs THEN ListItem(<< "-" >>, 0)
        ELSE IF text[1] \in DashGlyphs /\ Len(text) > 1 /\ text[2] = " "
             THEN ListItem(<< "-" >>, 0)
        ELSE IF LetterMarkerEnd(text) # 0
             THEN ListItem(SubSeq(text, 1, LetterMarkerEnd(text) - 1), 2)
        ELSE IF RomanMarkerEnd(text) # 0
             THEN ListItem(<< "(" >> \o SubSeq(text, 2, RomanMarkerEnd(text) - 2) \o << ")" >>, 1)
        ELSE IF d > 1 /\ At(text, d) = "." /\ IsSpace(At(text, d + 1))
             THEN ListItem(SubSeq(text, 1, d - 1) \o << "." >>, 0)
        ELSE IF d > 1 /\ At(text, d) = ")" /\ IsSpace(At(text, d + 1))
             THEN ListItem(SubSeq(text, 1, d - 1) \o << ")" >>, 0)
        ELSE NotList

_detect_list_type(raw) ==
    LET text == Strip(raw)
        d == DigitsEnd(text, 1)
    IN  IF Len(text) < 2 THEN NotList
        ELSE IF text[1] \in BulletGlyphs THEN ListItem(<< "-" >>, 0)
        ELSE IF text[1] \in DashGlyphs /\ Len(text) > 1 /\ text[2] = " "
             THEN ListItem(<< "-" >>, 0)
        ELSE IF RomanMarkerEnd(text) # 0
             THEN ListItem(<< "(" >> \o SubSeq(text, 2, RomanMarkerEnd(text) - 2) \o << ")" >>, 1)
        ELSE IF LetterMarkerEnd(text) # 0
             THEN ListItem(SubSeq(text, 1, LetterMarkerEnd(text) - 1), 2)
        ELSE IF d > 1 /\ At(text, d) = "." /\ IsSpace(At(text, d + 1))
             THEN ListItem(SubSeq(text, 1, d - 1) \o << "." >>, 0)
        ELSE IF d > 1 /\ At(text, d) = ")" /\ IsSpace(At(text, d + 1))
             THEN ListItem(SubSeq(text, 1, d - 1) \o << ")" >>, 0)
        ELSE NotList

(***************************************************************************)
(* _group_lines_into_blocks                                                *)
(***************************************************************************)

\* re.sub(r'^[bullets and dashes]\s+', '', s)
CleanBullet(s) ==
    IF At(s, 1) \in (BulletGlyphs \cup DashGlyphs) /\ SpacesPlus(s, 2) # 0
    THEN SubSeq(s, SpacesPlus(s, 2), Len(s)) ELSE s

\* re.sub(r'^\([ivxlcdm]+\)\s+', '', s, flags=re.IGNORECASE)
CleanRoman(s) ==
    IF RomanMarkerEnd(s) # 0
    THEN SubSeq(s, SpacesEnd(s, RomanMarkerEnd(s)), Len(s)) ELSE s

\* re.sub(r'^\([a-z]\)\s+', '', s)
CleanParenLetter(s) ==
    IF At(s, 1) = "(" /\ IsLower(At(s, 2)) /\ At(s, 3) = ")" /\ SpacesPlus(s, 4) # 0
    THEN SubSeq(s, SpacesPlus(s, 4), Len(s)) ELSE s

\* re.sub(r'^[a-z]\)\s+', '', s)
CleanLetter(s) ==
    IF IsLower(At(s, 1)) /\ At(s, 2) = ")" /\ SpacesPlus(s, 3) # 0
    THEN SubSeq(s, SpacesPlus(s, 3), Len(s)) ELSE s

\* re.sub(r'^\d+[\\.]\s+', '', s)
CleanNumber(s) ==
    LET d == DigitsEnd(s, 1)
    IN  IF d > 1 /\ At(s, d) \in {"\\", "."} /\ SpacesPlus(s, d + 1) # 0
        THEN SubSeq(s, SpacesPlus(s, d + 1), Len(s)) ELSE s

CleanMarker(s) == CleanNumber(CleanLetter(CleanParenLetter(CleanRoman(CleanBullet(s)))))

\* The lookahead loop of a list item or of a paragraph: from merged line i,
\* absorb the lines that are neither headers nor list items, skipping blank
\* lines and header/footer lines.  at is the index the loop stops at.
RECURSIVE Lookahead(_, _, _, _, _)
Lookahead(ml, i, avg, hf, got) ==
    IF i > Len(ml) THEN [got EXCEPT !.at = i]
    ELSE LET next_line == ml[i]
             next_text == Strip(next_line.text)
         IN  IF next_text = << >> THEN Lookahead(ml, i + 1, avg, hf, got)
             ELSE IF next_text \in hf THEN Lookahead(ml, i + 1, avg, hf, got)
             ELSE IF _detect_header(next_line, avg, Len(next_text)).is_header
                     \/ _detect_list_type(next_text).is_list
                  THEN [got EXCEPT !.at = i]
             ELSE Lookahead(ml, i + 1, avg, hf,
                            [ at    |-> i + 1,
                              texts |-> Append(got.texts, next_text),
                              y1    |-> next_line.bottom,
                              chars |-> got.chars \o next_line.chars ])

StartRun(line, text, i) ==
    [at |-> i + 1, texts |-> << text >>, y1 |-> line.bottom, chars |-> line.chars]

HeaderBlock(line, text, level) ==
    [ type    |-> "text",
      content |-> Repeat("#", level) \o << " " >> \o text,
      y0      |-> line.top,
      y1      |-> line.bottom,
      chars   |-> line.chars ]

ListBlock(line, item, run) ==
    [ type    |-> "list",
      content |-> Repeat(" ", 2 * item.indent) \o item.marker \o << " " >>
                  \o CleanMarker(Join(run.texts, << " " >>)),
      y0      |-> line.top,
      y1      |-> run.y1,
      chars   |-> run.chars ]

\* A variant that leaves out the lines the lookahead absorbed.
ParagraphBlock_first_line_only(line, run) ==
    [ type    |-> "text",
      content |-> IF _is_bold(line.fontname)
                  THEN << "*", "*" >> \o run.texts[1] \o << "*", "*" >>
                  ELSE IF _is_italic(line.fontname)
                  THEN << "*" >> \o run.texts[1] \o << "*" >>
                  ELSE run.texts[1],
      y0      |-> line.top,
      y1      |-> run.y1,
      chars   |-> run.chars ]

ParagraphBlock(line, run) ==
    LET paragraph_text == Join(run.texts, << " " >>)
    IN  [ type    |-> "text",
          content |-> IF _is_bold(line.fontname)
                      THEN << "*", "*" >> \o paragraph_text \o << "*", "*" >>
                      ELSE IF _is_italic(line.fontname)
                      THEN << "*" >> \o paragraph_text \o << "*" >>
                      ELSE paragraph_text,
          y0      |-> line.top,
          y1      |-> run.y1,
          chars   |-> run.chars ]

\* The while loop over merged_lines, from index i.
RECURSIVE BlocksFrom(_, _, _, _, _)
BlocksFrom(ml, i, avg, hf, acc) ==
    IF i > Len(ml) THEN acc
    ELSE LET line == ml[i]
             text == Strip(line.text)
             header == _detect_header(line, avg, Len(text))
             item == _detect_list_type(text)
             run == Lookahead(ml, i + 1, avg, hf, StartRun(line, text, i))
         IN  IF text = << >> THEN BlocksFrom(ml, i + 1, avg, hf, acc)
             ELSE IF header.is_header /\ header.level # 0
                  THEN BlocksFrom(ml, i + 1, avg, hf,
                                  Append(acc, HeaderBlock(line, text, header.level)))
             ELSE IF item.is_list
                  THEN BlocksFrom(ml, run.at, avg, hf, Append(acc, ListBlock(line, item, run)))
             ELSE BlocksFrom(ml, run.at, avg, hf, Append(acc, ParagraphBlock(line, run)))

\* A variant whose loop begins at the second merged line.
_group_lines_into_blocks_from_second(ls, avg, hf) ==
    IF ls = << >> THEN << >>
    ELSE BlocksFrom(_merge_section_numbers(ls), 2, avg, hf, << >>)

_group_lines_into_blocks(ls, avg, hf) ==
    IF ls = << >> THEN << >>
    ELSE BlocksFrom(_merge_section_numbers(ls), 1, avg, hf, << >>)

(***************************************************************************)
(* Characters to words to lines                                            *)
(***************************************************************************)

Abs(n) == IF n < 0 THEN -n ELSE n

RECURSIVE SeqMin(_)
SeqMin(ns) == IF Len(ns) = 1 THEN ns[1] ELSE Min(ns[1], SeqMin(Tail(ns)))

RECURSIVE SeqMax(_)
SeqMax(ns) == IF Len(ns) = 1 THEN ns[1] ELSE Max(ns[1], SeqMax(Tail(ns)))

RECURSIVE SeqSum(_)
SeqSum(ns) == IF ns = << >> THEN 0 ELSE ns[1] + SeqSum(Tail(ns))

RECURSIVE Flatten(_)
Flatten(ss) == IF ss = << >> THEN << >> ELSE ss[1] \o Flatten(Tail(ss))

\* The characters a word or a line was built from are carried along in the
\* field chars (the source keeps only the text).
_chars_to_word(cs) ==
    [ text     |-> Flatten([i \in 1..Len(cs) |-> << cs[i].text >>]),
      x0       |-> SeqMin([i \in 1..Len(cs) |-> cs[i].x0]),
      x1       |-> SeqMax([i \in 1..Len(cs) |-> cs[i].x1]),
      top      |-> SeqMin([i \in 1..Len(cs) |-> cs[i].top]),
      bottom   |-> SeqMax([i \in 1..Len(cs) |-> cs[i].bottom]),
      size     |-> cs[1].size,
      fontname |-> cs[1].fontname,
      chars    |-> cs ]

\* The for loop of _group_chars_into_words, from index i.
RECURSIVE WordsFrom(_, _, _, _)
WordsFrom(cs, i, current_word_chars, words) ==
    IF i > Len(cs) THEN Append(words, _chars_to_word(current_word_chars))
    ELSE LET vertical_diff == Abs(cs[i].top - cs[i - 1].top)
             horizontal_gap == cs[i].x0 - cs[i - 1].x1
         IN  IF vertical_diff < 2 /\ horizontal_gap < 3
             THEN WordsFrom(cs, i + 1, Append(current_word_chars, cs[i]), words)
             ELSE WordsFrom(cs, i + 1, << cs[i] >>,
                            Append(words, _chars_to_word(current_word_chars)))

_group_chars_into_words(cs) ==
    IF cs = << >> THEN << >> ELSE WordsFrom(cs, 2, << cs[1] >>, << >>)

\* A variant that joins the words in the order it is given them.
_words_to_line_unsorted(ws) ==
    [ text     |-> Join([i \in 1..Len(ws) |-> ws[i].text], << " " >>),
      x0       |-> SeqMin([i \in 1..Len(ws) |-> ws[i].x0]),
      x1       |-> SeqMax([i \in 1..Len(ws) |-> ws[i].x1]),
      top      |-> SeqMin([i \in 1..Len(ws) |-> ws[i].top]),
      bottom   |-> SeqMax([i \in 1..Len(ws) |-> ws[i].bottom]),
      size     |-> ws[1].size,
      fontname |-> ws[1].fontname,
      chars    |-> Flatten([i \in 1..Len(ws) |-> ws[i].chars]) ]

_words_to_line(ws) ==
    LET sorted_words == SortKeyed([i \in 1..Len(ws) |-> [key |-> << ws[i].x0 >>, val |-> ws[i]]])
    IN  [ text     |-> Join([i \in 1..Len(sorted_words) |-> sorted_words[i].text], << " " >>),
          x0       |-> SeqMin([i \in 1..Len(ws) |-> ws[i].x0]),
          x1       |-> SeqMax([i \in 1..Len(ws) |-> ws[i].x1]),
          top      |-> SeqMin([i \in 1..Len(ws) |-> ws[i].top]),
          bottom   |-> SeqMax([i \in 1..Len(ws) |-> ws[i].bottom]),
          size     |-> sorted_words[1].size,
          fontname |-> sorted_words[1].fontname,
          chars    |-> Flatten([i \in 1..Len(sorted_words) |-> sorted_words[i].chars]) ]

\* The for loop of _group_words_into_lines, from index i of sorted_words.
RECURSIVE LinesFrom(_, _, _, _)
LinesFrom(sorted_words, i, current_line_words, ls) ==
    IF i > Len(sorted_words) THEN Append(ls, _words_to_line(current_line_words))
    ELSE IF Abs(sorted_words[i].top - sorted_words[i - 1].top) < 3
         THEN LinesFrom(sorted_words, i + 1, Append(current_line_words, sorted_words[i]), ls)
         ELSE LinesFrom(sorted_words, i + 1, << sorted_words[i] >>,
                        Append(ls, _words_to_line(current_line_words)))

_group_words_into_lines(ws) ==
    IF ws = << >> THEN << >>
    ELSE LET sorted_words ==
                 SortKeyed([i \in 1..Len(ws) |-> [key |-> << ws[i].top, ws[i].x0 >>, val |-> ws[i]]])
         IN  LinesFrom(sorted_words, 2, << sorted_words[1] >>, << >>)

(***************************************************************************)
(* _is_in_excluded_area, _extract_text_with_layout                         *)
(***************************************************************************)

\* A bounding box is << x0, y0, x1, y1 >>.
BoxOverlap(c, b) == c[1] < b[3] /\ c[3] > b[1] /\ c[2] < b[4] /\ c[4] > b[2]

\* A variant that forgets the images.
_is_in_excluded_area_tables_only(char_bbox, tbs, ibs) ==
    \E k \in 1..Len(tbs) : BoxOverlap(char_bbox, tbs[k])

_is_in_excluded_area(char_bbox, tbs, ibs) ==
    \E k \in 1..Len(tbs \o ibs) : BoxOverlap(char_bbox, (tbs \o ibs)[k])

CharBox(c) == << c.x0, c.top, c.x1, c.bottom >>

\* filtered_chars of _extract_text_with_layout
RECURSIVE FilteredChars(_, _, _)
FilteredChars(cs, tbs, ibs) ==
    IF cs = << >> THEN << >>
    ELSE IF ~_is_in_excluded_area(CharBox(Head(cs)), tbs, ibs)
         THEN << Head(cs) >> \o FilteredChars(Tail(cs), tbs, ibs)
         ELSE FilteredChars(Tail(cs), tbs, ibs)

\* sum(font_sizes) / len(font_sizes), as a fraction
AvgFontSize(cs) ==
    [num |-> SeqSum([i \in 1..Len(cs) |-> cs[i].size]), den |-> Len(cs)]

\* lines of _extract_text_with_layout, before the header/footer filter
PageLines(cs, tbs, ibs) ==
    _group_words_into_lines(_group_chars_into_words(FilteredChars(cs, tbs, ibs)))

RECURSIVE DropHeaderFooter(_, _)
DropHeaderFooter(ls, hf) ==
    IF ls = << >> THEN << >>
    ELSE IF Strip(Head(ls).text) \notin hf
         THEN << Head(ls) >> \o DropHeaderFooter(Tail(ls), hf)
         ELSE DropHeaderFooter(Tail(ls), hf)

\* lines after "if header_footer_text:"
FilteredLines(ls, hf) == IF hf # {} THEN DropHeaderFooter(ls, hf) ELSE ls

_extract_text_with_layout(page, tbs, ibs, hf) ==
    IF page.chars = << >> THEN << >>
    ELSE IF FilteredChars(page.chars, tbs, ibs) = << >> THEN << >>
    ELSE _group_lines_into_blocks(
             FilteredLines(PageLines(page.chars, tbs, ibs), hf),
             AvgFontSize(page.chars), hf)

(***************************************************************************)
(* _detect_headers_footers                                                 *)
(***************************************************************************)

\* prev_y <= height * 0.15
InHeaderZone(y, height) == y * 100 <= height * 15

\* prev_y >= height * 0.85
InFooterZone(y, height) == y * 100 >= height * 85

\* A finished line goes to header_lines or footer_lines by the top of its
\* last character.
Classified(st, height) ==
    LET line_text == Strip(st.current_line)
    IN  IF line_text = << >> THEN st
        ELSE IF InHeaderZone(st.prev_y, height)
             THEN [st EXCEPT !.header_lines = Append(@, line_text)]
        ELSE IF InFooterZone(st.prev_y, height)
             THEN [st EXCEPT !.footer_lines = Append(@, line_text)]
        ELSE st

\* The for loop over the sorted characters of one page.
RECURSIVE ZoneLinesFrom(_, _, _)
ZoneLinesFrom(cs, height, st) ==
    IF cs = << >> THEN st
    ELSE LET char == Head(cs)
             joined == IF ~st.has_prev \/ Abs(char.top - st.prev_y) < 3
                       THEN [st EXCEPT !.current_line = Append(@, char.text)]
                       ELSE [Classified(st, height) EXCEPT !.current_line = << char.text >>]
         IN  ZoneLinesFrom(Tail(cs), height,
                           [joined EXCEPT !.prev_y = char.top, !.has_prev = TRUE])

\* header_lines and footer_lines of one page_data.  The last line is kept
\* only "if line_text and prev_y": a prev_y of 0 is false in Python.
ZoneLines(page_data) ==
    LET cs == page_data.chars
        sorted == SortKeyed([i \in 1..Len(cs) |->
                      [key |-> << cs[i].top, cs[i].x0 >>, val |-> cs[i]]])
        st == ZoneLinesFrom(sorted, page_data.height,
                  [ current_line |-> << >>, prev_y |-> 0, has_prev |-> FALSE,
                    header_lines |-> << >>, footer_lines |-> << >> ])
    IN  IF st.current_line # << >> /\ st.has_prev /\ st.prev_y # 0
        THEN Classified(st, page_data.height) ELSE st

\* Counter(texts)[t]
Occurrences(texts, t) == Cardinality({i \in 1..Len(texts) : texts[i] = t})

Repeated(texts, repeated_threshold) ==
    { texts[i] : i \in { j \in 1..Len(texts) :
          Occurrences(texts, texts[j]) >= repeated_threshold /\ Len(texts[j]) > 3 } }

\* Fewer pages than this and nothing is detected.
MinPagesForDetection == 3

\* The texts of the header zones, and those of the footer zones, that are
\* on at least len(all_pages_text) // 2 of the pages.
RepeatedZoneTexts(apt) ==
    LET zones == [i \in 1..Len(apt) |-> ZoneLines(apt[i])]
        all_header_texts == Flatten([i \in 1..Len(apt) |-> zones[i].header_lines])
        all_footer_texts == Flatten([i \in 1..Len(apt) |-> zones[i].footer_lines])
        repeated_threshold == Len(apt) \div 2
    IN  Repeated(all_header_texts, repeated_threshold)
        \cup Repeated(all_footer_texts, repeated_threshold)

\* A variant that detects whatever the number of pages.
_detect_headers_footers_any_page_count(apt) == RepeatedZoneTexts(apt)

_detect_headers_footers(apt) ==
    IF Len(apt) < MinPagesForDetection THEN {} ELSE RepeatedZoneTexts(apt)

\* Step 0 of convert_pdf_to_markdown: the pages that have characters.
RECURSIVE CollectPagesText(_, _)
CollectPagesText(pages, n) ==
    IF pages = << >> THEN << >>
    ELSE IF Head(pages).chars # << >>
         THEN << [page_num |-> n, chars |-> Head(pages).chars, height |-> Head(pages).height] >>
              \o CollectPagesText(Tail(pages), n + 1)
         ELSE CollectPagesText(Tail(pages), n + 1)

(***************************************************************************)
(* _extract_tables, _extract_images                                        *)
(***************************************************************************)

\* A table object of pdfplumber: bbox, the grid extract() returns, and
\* whether extract() raises on it.  The for loop over page.find_tables(),
\* from table k: the bbox is recorded before the grid is extracted, and an
\* exception of extract() leaves the loop and the method.
RECURSIVE TablesFrom(_, _, _)
TablesFrom(tables, k, got) ==
    IF k > Len(tables) THEN got
    ELSE LET table_obj == tables[k]
             with_bbox == [got EXCEPT !.table_bboxes = Append(@, table_obj.bbox)]
         IN  IF table_obj.fault = "extract_raises"
             THEN [with_bbox EXCEPT !.raised = TRUE]
             ELSE IF table_obj.data # << >>
             THEN TablesFrom(tables, k + 1,
                      [with_bbox EXCEPT !.tables_md = Append(@,
                          [ type    |-> "table",
                            content |-> _table_to_markdown(table_obj.data),
                            y0      |-> table_obj.bbox[2],
                            y1      |-> table_obj.bbox[4],
                            chars   |-> << >> ])])
             ELSE TablesFrom(tables, k + 1, with_bbox)

_extract_tables(page) ==
    TablesFrom(page.tables, 1,
               [tables_md |-> << >>, table_bboxes |-> << >>, raised |-> FALSE])

\* str(n) for n >= 0
RECURSIVE IntToStr(_)
IntToStr(n) ==
    LET digit == << "0", "1", "2", "3", "4", "5", "6", "7", "8", "9" >>[(n % 10) + 1]
    IN  IF n < 10 THEN << digit >> ELSE Append(IntToStr(n \div 10), digit)

\* The parameters filename_base and public_image_path of one conversion.
filename_base == << "d", "o", "c" >>

public_image_path == << "/", "i", "m", "g" >>

\* f"{filename_base}_p{page_num}_img{img_index}.{image_ext}"
ImageFilename(n, img_index, image_ext) ==
    filename_base \o << "_", "p" >> \o IntToStr(n) \o << "_", "i", "m", "g" >>
    \o IntToStr(img_index) \o << "." >> \o image_ext

\* f"![Image]({public_image_path}/{image_filename})"
ImageLink(image_filename) ==
    << "!", "[", "I", "m", "a", "g", "e", "]", "(" >> \o public_image_path
    \o << "/" >> \o image_filename \o << ")" >>

\* An image of a page: the rectangles get_image_rects returns, the image's
\* extension, and the step of its extraction that raises, if any.  The for
\* loop over page.get_images(), from image k (img_index = k - 1); every
\* exception is caught and the loop continues with the next image.
RECURSIVE ImagesFrom(_, _, _, _)
ImagesFrom(images, n, k, got) ==
    IF k > Len(images) THEN got
    ELSE LET img == images[k]
             bbox == img.rects[1]
             image_filename == ImageFilename(n, k - 1, img.ext)
             with_bbox == [got EXCEPT !.image_bboxes = Append(@, bbox)]
             with_file == [with_bbox EXCEPT !.files = @ \cup {image_filename}]
         IN  IF img.fault = "rects_raises" THEN ImagesFrom(images, n, k + 1, got)
             ELSE IF img.rects = << >> THEN ImagesFrom(images, n, k + 1, got)
             ELSE IF img.fault \in {"extract_raises", "open_raises"}
                  THEN ImagesFrom(images, n, k + 1, with_bbox)
             ELSE IF img.fault = "write_raises"
                  THEN ImagesFrom(images, n, k + 1, with_file)
             ELSE ImagesFrom(images, n, k + 1,
                      [with_file EXCEPT !.images_md = Append(@,
                          [ type    |-> "image",
                            content |-> ImageLink(image_filename),
                            y0      |-> bbox[2],
                            y1      |-> bbox[4],
                            chars   |-> << >> ])])

\* A variant whose loop ends at the first image that fails.
_extract_images_stop_at_failure(page, n) ==
    LET failing == { k \in 1..Len(page.images) : page.images[k].fault # "none" }
        upto == IF failing = {} THEN Len(page.images)
                ELSE (CHOOSE k \in failing : \A j \in failing : k <= j) - 1
    IN  ImagesFrom(SubSeq(page.images, 1, upto), n, 1,
                   [images_md |-> << >>, image_bboxes |-> << >>, files |-> {}])

_extract_images(page, n) ==
    ImagesFrom(page.images, n, 1,
               [images_md |-> << >>, image_bboxes |-> << >>, files |-> {}])

(***************************************************************************)
(* _merge_content_by_position, _post_process_markdown                      *)
(***************************************************************************)

\* md_lines of the for loop over all_blocks, from block k.
RECURSIVE MergedFrom(_, _, _)
MergedFrom(all_blocks, k, md_lines) ==
    IF k > Len(all_blocks) THEN md_lines
    ELSE LET block == all_blocks[k]
             spaced == IF k > 1 /\ ( all_blocks[k - 1].type # block.type
                                     \/ block.type = "text"
                                     \/ block.type = "list" )
                       THEN Append(md_lines, << >>) ELSE md_lines
         IN  MergedFrom(all_blocks, k + 1, Append(spaced, block.content))

\* A variant that does not sort.
_merge_content_by_position_unsorted(text_blocks, tables, images) ==
    Join(MergedFrom(text_blocks \o tables \o images, 1, << >>), << "\n" >>)

\* A variant that puts a blank line between any two blocks.
_merge_content_by_position_always_blank(text_blocks, tables, images) ==
    LET joined == text_blocks \o tables \o images
        all_blocks == SortKeyed([i \in 1..Len(joined) |->
                          [key |-> << joined[i].y0 >>, val |-> joined[i]]])
    IN  Join([i \in 1..Len(all_blocks) |-> all_blocks[i].content], << "\n", "\n" >>)

_merge_content_by_position(text_blocks, tables, images) ==
    LET joined == text_blocks \o tables \o images
        all_blocks == SortKeyed([i \in 1..Len(joined) |->
                          [key |-> << joined[i].y0 >>, val |-> joined[i]]])
    IN  Join(MergedFrom(all_blocks, 1, << >>), << "\n" >>)

\* The for loop of _post_process_markdown.
RECURSIVE ProcessedFrom(_, _, _)
ProcessedFrom(ls, prev_line, processed_lines) ==
    IF ls = << >> THEN processed_lines
    ELSE LET line == Head(ls)
         IN  IF Strip(line) = << >>
             THEN IF Strip(prev_line) # << >>
                     \/ ( Len(processed_lines) > 0
                          /\ processed_lines[Len(processed_lines)] # << >> )
                  THEN ProcessedFrom(Tail(ls), line, Append(processed_lines, << >>))
                  ELSE ProcessedFrom(Tail(ls), line, processed_lines)
             ELSE ProcessedFrom(Tail(ls), line, Append(processed_lines, line))

\* \n* from p
RECURSIVE NewlinesEnd(_, _)
NewlinesEnd(s, p) == IF At(s, p) = "\n" THEN NewlinesEnd(s, p + 1) ELSE p

\* re.sub(r"\n{3,}", "\n\n", s), from position p: the text up to the next
\* run of line breaks, the run (two line breaks for three or more), the rest.
RECURSIVE CollapseFrom(_, _)
CollapseFrom(s, p) ==
    LET q == FirstIn(s, "\n", p, Len(s))
        e == NewlinesEnd(s, q)
    IN  IF q = 0 THEN SubSeq(s, p, Len(s))
        ELSE SubSeq(s, p, q - 1)
             \o (IF e - q >= 3 THEN << "\n", "\n" >> ELSE SubSeq(s, q, e - 1))
             \o CollapseFrom(s, e)

\* A variant without the loop that drops repeated blank lines.
_post_process_markdown_regex_only(md) == Strip(CollapseFrom(md, 1))

_post_process_markdown(md) ==
    Strip(CollapseFrom(Join(ProcessedFrom(Split(md, "\n"), << >>, << >>), << "\n" >>), 1))

(***************************************************************************)
(* convert_pdf_to_markdown, one action per step.  page_num counts from 0   *)
(* as in the source; the page of the loop is doc[page_num + 1].            *)
(***************************************************************************)

Raise(where) ==
    /\ exc' = where
    /\ result' = "raised"
    /\ pc' = "done"

\* os.makedirs(image_output_dir), os.makedirs(output_dir): both succeed, or
\* one raises before any handle is opened.
MakeDirs ==
    /\ pc = "makedirs"
    /\ \/ /\ pc' = "open_plumber"
          /\ UNCHANGED << exc, result >>
       \/ Raise("makedirs")
    /\ UNCHANGED << doc, plumber, pymupdf, all_pages_text, header_footer_text,
                    page_num, tables_md, table_bboxes, images_md, image_bboxes,
                    text_md, md_content, md_file, md_writes, image_files >>
    /\ UNCHANGED << tableVars, blockVars, callVars, helperVars >>

\* pdf_plumber = pdfplumber.open(pdf_path)
OpenPlumber ==
    /\ pc = "open_plumber"
    /\ \/ /\ plumber' = "open"
          /\ pc' = "open_pymupdf"
          /\ UNCHANGED << exc, result >>
       \/ /\ Raise("open")
          /\ UNCHANGED plumber
    /\ UNCHANGED << doc, pymupdf, all_pages_text, header_footer_text,
                    page_num, tables_md, table_bboxes, images_md, image_bboxes,
                    text_md, md_content, md_file, md_writes, image_files >>
    /\ UNCHANGED << tableVars, blockVars, callVars, helperVars >>

\* pdf_pymupdf = pymupdf.open(pdf_path): outside the try statement
OpenPymupdf ==
    /\ pc = "open_pymupdf"
    /\ \/ /\ pymupdf' = "open"
          /\ pc' = "detect"
          /\ UNCHANGED << exc, result >>
       \/ /\ Raise("open")
          /\ UNCHANGED pymupdf
    /\ UNCHANGED << doc, plumber, all_pages_text, header_footer_text,
                    page_num, tables_md, table_bboxes, images_md, image_bboxes,
                    text_md, md_content, md_file, md_writes, image_files >>
    /\ UNCHANGED << tableVars, blockVars, callVars, helperVars >>

\* Step 0 and _detect_headers_footers
DetectHeadersFooters ==
    /\ pc = "detect"
    /\ all_pages_text' = CollectPagesText(doc, 0)
    /\ header_footer_text' = _detect_headers_footers(all_pages_text')
    /\ pc' = "tables"
    /\ UNCHANGED << doc, plumber, pymupdf, exc, page_num, tables_md, table_bboxes,
                    images_md, image_bboxes, text_md, md_content, md_file,
                    md_writes, image_files, result >>
    /\ UNCHANGED << tableVars, blockVars, callVars, helperVars >>

\* Step 1: _extract_tables; an exception of it leaves the try body.
ExtractTables ==
    /\ pc = "tables"
    /\ page_num < Len(doc)
    /\ LET got == _extract_tables(doc[page_num + 1])
       IN  IF got.raised
           THEN /\ exc' = "table"
                /\ pc' = "close_plumber"
                /\ UNCHANGED << tables_md, table_bboxes >>
           ELSE /\ tables_md' = got.tables_md
                /\ table_bboxes' = got.table_bboxes
                /\ pc' = "images"
                /\ UNCHANGED exc
    /\ UNCHANGED << doc, plumber, pymupdf, all_pages_text, header_footer_text,
                    page_num, images_md, image_bboxes, text_md, md_content,
                    md_file, md_writes, image_files, result >>
    /\ UNCHANGED << tableVars, blockVars, callVars, helperVars >>

\* Step 2: _extract_images
ExtractImages ==
    /\ pc = "images"
    /\ LET got == _extract_images(doc[page_num + 1], page_num)
       IN  /\ images_md' = got.images_md
           /\ image_bboxes' = got.image_bboxes
           /\ image_files' = image_files \cup got.files
    /\ pc' = "text"
    /\ UNCHANGED << doc, plumber, pymupdf, exc, all_pages_text, header_footer_text,
                    page_num, tables_md, table_bboxes, text_md, md_content,
                    md_file, md_writes, result >>
    /\ UNCHANGED << tableVars, blockVars, callVars, helperVars >>

\* Step 3: _extract_text_with_layout
ExtractText ==
    /\ pc = "text"
    /\ text_md' = _extract_text_with_layout(doc[page_num + 1], table_bboxes,
                                            image_bboxes, header_footer_text)
    /\ pc' = "merge"
    /\ UNCHANGED << doc, plumber, pymupdf, exc, all_pages_text, header_footer_text,
                    page_num, tables_md, table_bboxes, images_md, image_bboxes,
                    md_content, md_file, md_writes, image_files, result >>
    /\ UNCHANGED << tableVars, blockVars, callVars, helperVars >>

\* A variant that writes the Markdown file after every page.
MergePage_writing_file ==
    /\ pc = "merge"
    /\ md_content' = md_content \o _merge_content_by_position(text_md, tables_md, images_md)
                     \o << "\n", "\n" >>
    /\ md_file' = md_content'
    /\ md_writes' = md_writes + 1
    /\ page_num' = page_num + 1
    /\ pc' = "tables"
    /\ UNCHANGED << doc, plumber, pymupdf, exc, all_pages_text, header_footer_text,
                    tables_md, table_bboxes, images_md, image_bboxes, text_md,
                    image_files, result >>
    /\ UNCHANGED << tableVars, blockVars, callVars, helperVars >>

\* Step 4: _merge_content_by_position, md_content += page_content + "\n\n"
MergePage ==
    /\ pc = "merge"
    /\ md_content' = md_content \o _merge_content_by_position(text_md, tables_md, images_md)
                     \o << "\n", "\n" >>
    /\ page_num' = page_num + 1
    /\ pc' = "tables"
    /\ UNCHANGED << doc, plumber, pymupdf, exc, all_pages_text, header_footer_text,
                    tables_md, table_bboxes, images_md, image_bboxes, text_md,
                    md_file, md_writes, image_files, result >>
    /\ UNCHANGED << tableVars, blockVars, callVars, helperVars >>

\* The for loop is exhausted: on to the finally clause.
PagesDone ==
    /\ pc = "tables"
    /\ page_num = Len(doc)
    /\ pc' = "close_plumber"
    /\ UNCHANGED << doc, plumber, pymupdf, exc, all_pages_text, header_footer_text,
                    page_num, tables_md, table_bboxes, images_md, image_bboxes,
                    text_md, md_content, md_file, md_writes, image_files, result >>
    /\ UNCHANGED << tableVars, blockVars, callVars, helperVars >>

\* Any other step of the try body raises (a page object that cannot be read).
PageStepRaises ==
    /\ pc \in {"detect", "images", "text", "merge"}
    /\ exc' = "page"
    /\ pc' = "close_plumber"
    /\ UNCHANGED << doc, plumber, pymupdf, all_pages_text, header_footer_text,
                    page_num, tables_md, table_bboxes, images_md, image_bboxes,
                    text_md, md_content, md_file, md_writes, image_files, result >>
    /\ UNCHANGED << tableVars, blockVars, callVars, helperVars >>

\* finally: pdf_plumber.close(); when it raises, the finally clause is left.
ClosePlumber ==
    /\ pc = "close_plumber"
    /\ \/ /\ plumber' = "closed"
          /\ pc' = "close_pymupdf"
          /\ UNCHANGED << exc, result >>
       \/ /\ Raise("close")
          /\ UNCHANGED plumber
    /\ UNCHANGED << doc, pymupdf, all_pages_text, header_footer_text,
                    page_num, tables_md, table_bboxes, images_md, image_bboxes,
                    text_md, md_content, md_file, md_writes, image_files >>
    /\ UNCHANGED << tableVars, blockVars, callVars, helperVars >>

\* finally: pdf_pymupdf.close(); then the exception in flight, if any, goes on.
ClosePymupdf ==
    /\ pc = "close_pymupdf"
    /\ \/ /\ pymupdf' = "closed"
          /\ IF exc = "none"
             THEN pc' = "postprocess" /\ UNCHANGED << exc, result >>
             ELSE Raise(exc)
       \/ /\ Raise("close")
          /\ UNCHANGED pymupdf
    /\ UNCHANGED << doc, plumber, all_pages_text, header_footer_text,
                    page_num, tables_md, table_bboxes, images_md, image_bboxes,
                    text_md, md_content, md_file, md_writes, image_files >>
    /\ UNCHANGED << tableVars, blockVars, callVars, helperVars >>

\* Step 5: _post_process_markdown
PostProcess ==
    /\ pc = "postprocess"
    /\ md_content' = _post_process_markdown(md_content)
    /\ pc' = "write"
    /\ UNCHANGED << doc, plumber, pymupdf, exc, all_pages_text, header_footer_text,
                    page_num, tables_md, table_bboxes, images_md, image_bboxes,
                    text_md, md_file, md_writes, image_files, result >>
    /\ UNCHANGED << tableVars, blockVars, callVars, helperVars >>

\* with open(output_path, "w") as f: f.write(md_content).  open may raise
\* (nothing is created); f.write may raise after open has truncated the file.
WriteFile ==
    /\ pc = "write"
    /\ \/ /\ md_file' = md_content
          /\ md_writes' = md_writes + 1
          /\ result' = "returned"
          /\ pc' = "done"
          /\ UNCHANGED exc
       \/ /\ Raise("write_open")
          /\ UNCHANGED << md_file, md_writes >>
       \/ /\ Raise("write")
          /\ md_file' = << >>
          /\ md_writes' = md_writes + 1
    /\ UNCHANGED << doc, plumber, pymupdf, all_pages_text, header_footer_text,
                    page_num, tables_md, table_bboxes, images_md, image_bboxes,
                    text_md, md_content, image_files >>
    /\ UNCHANGED << tableVars, blockVars, callVars, helperVars >>

Next ==
    \/ MakeDirs
    \/ OpenPlumber
    \/ OpenPymupdf
    \/ DetectHeadersFooters
    \/ ExtractTables
    \/ ExtractImages
    \/ ExtractText
    \/ MergePage
    \/ PagesDone
    \/ PageStepRaises
    \/ ClosePlumber
    \/ ClosePymupdf
    \/ PostProcess
    \/ WriteFile

(***************************************************************************)
(* The documents of the model.                                             *)
(***************************************************************************)

\* A run of glyphs set side by side from x0, each 5 wide: one word.
Glyphs(text, x0, top, size, fontname) ==
    [i \in 1..Len(text) |->
        [ text     |-> text[i],
          x0       |-> x0 + 5 * (i - 1),
          x1       |-> x0 + 5 * i,
          top      |-> top,
          bottom   |-> top + size,
          size     |-> size,
          fontname |-> fontname ]]

Page(chars, tables, images) ==
    [height |-> 100, chars |-> chars, tables |-> tables, images |-> images]

HeadLine == Glyphs(<< "H", "E", "A", "D" >>, 0, 10, 10, "Helvetica")

\* Two words 5 apart with no space glyph between them.
SplitHeadLine ==
    Glyphs(<< "A", "B" >>, 0, 10, 10, "Helvetica")
    \o Glyphs(<< "C", "D" >>, 15, 10, 10, "Helvetica")

BodyLine == Glyphs(<< "b", "o", "d", "y" >>, 0, 50, 10, "Helvetica")

FootLine == Glyphs(<< "F", "O", "O", "T" >>, 0, 90, 10, "Helvetica")

GoodTable(bbox) ==
    [bbox |-> bbox, data |-> << << << "c" >>, None >>, << << "v" >> >> >>, fault |-> "none"]

BadTable(bbox) == [bbox |-> bbox, data |-> << >>, fault |-> "extract_raises"]

EmptyTable(bbox) == [bbox |-> bbox, data |-> << >>, fault |-> "none"]

Image(rects, fault) == [rects |-> rects, ext |-> << "p", "n", "g" >>, fault |-> fault]

\* Pages for header/footer detection and for exclusion zones.  On ZonePage
\* a table covers the glyphs "d" and "y" of the body and touches "o"; an
\* image covers the glyph "H" of the header line.
TextPages ==
    { Page(<< >>, << >>, << >>),
      Page(BodyLine, << >>, << >>),
      Page(HeadLine \o BodyLine, << >>, << >>),
      Page(SplitHeadLine \o BodyLine, << >>, << >>),
      Page(BodyLine \o FootLine, << >>, << >>),
      Page(HeadLine \o BodyLine,
           << GoodTable(<< 10, 45, 40, 70 >>) >>,
           << Image(<< << 0, 0, 5, 12 >> >>, "none") >>) }

\* Pages whose tables or images fail; on the last one a table with an empty
\* grid lies over the body text.
FaultPages ==
    { Page(BodyLine, << >>, << >>),
      Page(BodyLine, << EmptyTable(<< 0, 45, 50, 70 >>) >>, << >>),
      Page(BodyLine, << BadTable(<< 0, 20, 50, 30 >>), GoodTable(<< 0, 32, 50, 40 >>) >>, << >>),
      Page(BodyLine, << GoodTable(<< 0, 20, 50, 30 >>) >>,
           << Image(<< << 0, 70, 20, 80 >> >>, "extract_raises"),
              Image(<< << 30, 70, 50, 80 >> >>, "none") >>),
      Page(<< >>, << EmptyTable(<< 0, 20, 50, 30 >>) >>,
           << Image(<< >>, "rects_raises"),
              Image(<< >>, "none"),
              Image(<< << 0, 70, 20, 80 >> >>, "write_raises"),
              Image(<< << 30, 70, 50, 80 >>, << 0, 0, 5, 5 >> >>, "none"),
              Image(<< << 60, 70, 80, 80 >> >>, "open_raises") >>) }

\* Pages of longer documents: a page without characters, a page of body
\* text, a page with a header line and a page whose header line is set
\* twice, at tops 5 and 10.
LongDocPages ==
    { Page(<< >>, << >>, << >>),
      Page(BodyLine, << >>, << >>),
      Page(HeadLine \o BodyLine, << >>, << >>),
      Page(Glyphs(<< "H", "E", "A", "D" >>, 0, 5, 4, "Helvetica") \o HeadLine \o BodyLine,
           << >>, << >>) }

MaxPages == 2

MaxTextPages == 3

MaxLongPages == 4

RECURSIVE SeqsUpTo(_, _)
SeqsUpTo(S, n) ==
    IF n = 0 THEN { << >> }
    ELSE LET shorter == SeqsUpTo(S, n - 1)
         IN  shorter \cup { Append(q, x) : q \in { r \in shorter : Len(r) = n - 1 }, x \in S }

Docs ==
    SeqsUpTo(FaultPages, MaxPages) \cup SeqsUpTo(TextPages, MaxTextPages)
        \cup SeqsUpTo(LongDocPages, MaxLongPages)

IdleTable == table_data = << >> /\ md_table = << >>

IdleMerge ==
    /\ merge_text = << >> /\ merge_tables = << >> /\ merge_images = << >>
    /\ page_content = << >>

IdlePost == raw_markdown = << >> /\ clean_markdown = << >>

NoDetection == [pc |-> "none"]

IdleUnit == detected = NoDetection

IdleGroup == filtered_chars = << >> /\ grouped_words = << >> /\ grouped_lines = << >>

IdleHelpers == IdleMerge /\ IdlePost /\ IdleUnit /\ IdleGroup

\* __init__: the fields of a DocumentConverter.
ConverterFields ==
    [ header_size_threshold_large  |-> header_size_threshold_large,
      header_size_threshold_medium |-> header_size_threshold_medium,
      header_size_threshold_small  |-> header_size_threshold_small,
      section_number_pattern       |-> "^(\\d+(\\.\\d+)*\\.?)$",
      numbered_header_pattern      |-> "^(\\d+(?:\\.\\d+)+\\.?|\\d+\\.)\\s+" ]

\* No second call of convert_pdf_to_markdown.
NoCall == [pc |-> "none"]

NoOtherCall == converter = ConverterFields /\ parked = NoCall /\ active = 1

IdleBlocks ==
    lines = << >> /\ avg_font_size = << >> /\ merged_lines = << >> /\ blocks = << >>

Init ==
    /\ doc \in Docs
    /\ pc = "makedirs"
    /\ plumber = "unopened"
    /\ pymupdf = "unopened"
    /\ exc = "none"
    /\ all_pages_text = << >>
    /\ header_footer_text = {}
    /\ page_num = 0
    /\ tables_md = << >>
    /\ table_bboxes = << >>
    /\ images_md = << >>
    /\ image_bboxes = << >>
    /\ text_md = << >>
    /\ md_content = << >>
    /\ md_file = None
    /\ md_writes = 0
    /\ image_files = {}
    /\ result = "running"
    /\ IdleTable
    /\ IdleBlocks
    /\ NoOtherCall
    /\ IdleHelpers

Spec == Init /\ [][Next]_vars

(***************************************************************************)
(* _table_to_markdown applied to a grid, with nothing else running.        *)
(***************************************************************************)

IdlePipeline ==
    /\ doc = << >>
    /\ plumber = "unopened"
    /\ pymupdf = "unopened"
    /\ exc = "none"
    /\ all_pages_text = << >>
    /\ page_num = 0
    /\ tables_md = << >>
    /\ table_bboxes = << >>
    /\ images_md = << >>
    /\ image_bboxes = << >>
    /\ text_md = << >>
    /\ md_content = << >>
    /\ md_file = None
    /\ md_writes = 0
    /\ image_files = {}
    /\ result = "running"
    /\ NoOtherCall

MaxRows == 2

MaxCols == 2

\* What a cell of table_obj.extract() can be: None, text to trim, text with
\* a pipe, text with a line break (pdfplumber keeps the line breaks of a
\* wrapped cell).
Cells == { None, << "a" >>, << " ", "b" >>, << "|" >>, << "x", "\n", "y" >> }

Grids == SeqsUpTo(SeqsUpTo(Cells, MaxCols), MaxRows)

InitTable ==
    /\ IdlePipeline
    /\ IdleHelpers
    /\ header_footer_text = {}
    /\ IdleBlocks
    /\ pc = "table"
    /\ table_data \in Grids
    /\ md_table = << >>

TableToMarkdown ==
    /\ pc = "table"
    /\ md_table' = _table_to_markdown(table_data)
    /\ pc' = "table_done"
    /\ UNCHANGED << table_data, blockVars, callVars, helperVars >>
    /\ UNCHANGED << doc, plumber, pymupdf, exc, all_pages_text, header_footer_text,
                    page_num, tables_md, table_bboxes, images_md, image_bboxes,
                    text_md, md_content, md_file, md_writes, image_files, result >>

NextTable == TableToMarkdown

SpecTable == InitTable /\ [][NextTable]_vars

(***************************************************************************)
(* _group_lines_into_blocks applied to a list of lines, with nothing else  *)
(* running: first its call of _merge_section_numbers, then the loop.       *)
(***************************************************************************)

MaxLines == 3

LineTexts ==
    { << "2", "0", "." >>,
      << "1", "." >>,
      << "T", "E", "X", "T" >>,
      << "p", "a", "r", "a" >>,
      << " " >>,
      << "1", ".", "1", ".", "1", " ", "S", "c", "o", "p", "e" >>,
      << "BULLET", " ", "I", "t" >>,
      << "BULLET", "I", "t" >>,
      << "(", "i", "v", ")", " ", "R" >>,
      << "i", "t", "a", "l" >>,
      << "7", "." >> }

\* The line "ital" is set in an italic font, the others in a regular one.
FontOf(text) ==
    IF text = << "i", "t", "a", "l" >> THEN "Helvetica-Oblique" ELSE "Helvetica"

\* The number "7." is set four times as tall as the other lines.
SizeOf(text) == IF text = << "7", "." >> THEN 40 ELSE 10

\* Line i of the input, 20 below the line before it.  Its field chars holds
\* i, to tell from which lines a block was built.
InputLine(text, i) ==
    [ text     |-> text,
      x0       |-> 0,
      x1       |-> 5 * Len(text),
      top      |-> 20 * i,
      bottom   |-> 20 * i + SizeOf(text),
      size     |-> SizeOf(text),
      fontname |-> FontOf(text),
      chars    |-> << i >> ]

InputLines == { [i \in 1..Len(q) |-> InputLine(q[i], i)] : q \in SeqsUpTo(LineTexts, MaxLines) }

InitBlocks ==
    /\ IdlePipeline
    /\ IdleHelpers
    /\ IdleTable
    /\ lines \in InputLines
    /\ avg_font_size = [num |-> 10, den |-> 1]
    /\ header_footer_text \in { {}, { << "2", "0", ".", " ", "T", "E", "X", "T" >> },
                                { << "T", "E", "X", "T" >> } }
    /\ merged_lines = << >>
    /\ blocks = << >>
    /\ pc = "lines"

MergeSectionNumbers ==
    /\ pc = "lines"
    /\ merged_lines' = _merge_section_numbers(lines)
    /\ pc' = "merged"
    /\ UNCHANGED << lines, avg_font_size, blocks, tableVars, callVars, helperVars >>
    /\ UNCHANGED << doc, plumber, pymupdf, exc, all_pages_text, header_footer_text,
                    page_num, tables_md, table_bboxes, images_md, image_bboxes,
                    text_md, md_content, md_file, md_writes, image_files, result >>

GroupLinesIntoBlocks ==
    /\ pc = "merged"
    /\ blocks' = _group_lines_into_blocks(lines, avg_font_size, header_footer_text)
    /\ pc' = "blocks"
    /\ UNCHANGED << lines, avg_font_size, merged_lines, tableVars, callVars, helperVars >>
    /\ UNCHANGED << doc, plumber, pymupdf, exc, all_pages_text, header_footer_text,
                    page_num, tables_md, table_bboxes, images_md, image_bboxes,
                    text_md, md_content, md_file, md_writes, image_files, result >>

NextBlocks == MergeSectionNumbers \/ GroupLinesIntoBlocks

SpecBlocks == InitBlocks /\ [][NextBlocks]_vars

(***************************************************************************)
(* _merge_content_by_position, called alone on the blocks of one page.     *)
(***************************************************************************)

MaxMergeBlocks == 2

\* The tops of the blocks.
MergeYs == {0, 10}

\* Paragraphs and list items P1, P2, ... of the kinds and tops q.
TextBlocksOf(q) ==
    [i \in 1..Len(q) |->
        [ type |-> q[i][1], content |-> << "P" >> \o IntToStr(i),
          y0 |-> q[i][2], y1 |-> q[i][2] + 5 ]]

\* Tables of one cell T1, T2, ... at the tops q, as _extract_tables builds them.
TableBlocksOf(q) ==
    [i \in 1..Len(q) |->
        [ type |-> "table",
          content |-> _table_to_markdown(<< << << "T" >> \o IntToStr(i) >> >>),
          y0 |-> q[i], y1 |-> q[i] + 5 ]]

\* Images at the tops q, as _extract_images builds them.
ImageBlocksOf(q) ==
    [i \in 1..Len(q) |->
        [ type |-> "image",
          content |-> ImageLink(ImageFilename(0, i - 1, << "p", "n", "g" >>)),
          y0 |-> q[i], y1 |-> q[i] + 5 ]]

InitMerge ==
    /\ IdlePipeline
    /\ header_footer_text = {}
    /\ IdleTable
    /\ IdleBlocks
    /\ IdlePost
    /\ IdleUnit
    /\ IdleGroup
    /\ pc = "merge_call"
    /\ merge_text \in { TextBlocksOf(q) : q \in SeqsUpTo({"text", "list"} \X MergeYs, MaxMergeBlocks) }
    /\ merge_tables \in { TableBlocksOf(q) : q \in SeqsUpTo(MergeYs, MaxMergeBlocks) }
    /\ merge_images \in { ImageBlocksOf(q) : q \in SeqsUpTo(MergeYs, MaxMergeBlocks) }
    /\ page_content = << >>

MergeContentByPosition ==
    /\ pc = "merge_call"
    /\ page_content' = _merge_content_by_position(merge_text, merge_tables, merge_images)
    /\ pc' = "merge_returned"
    /\ UNCHANGED << merge_text, merge_tables, merge_images, postVars, unitVars, groupVars >>
    /\ UNCHANGED << doc, plumber, pymupdf, exc, all_pages_text, header_footer_text,
                    page_num, tables_md, table_bboxes, images_md, image_bboxes,
                    text_md, md_content, md_file, md_writes, image_files, result >>
    /\ UNCHANGED << tableVars, blockVars, callVars >>

NextMerge == MergeContentByPosition

SpecMerge == InitMerge /\ [][NextMerge]_vars

(***************************************************************************)
(* _post_process_markdown, called alone.                                   *)
(***************************************************************************)

MaxMarkdownLen == 6

\* Markdown of a letter, spaces and line breaks.
MarkdownTexts == SeqsUpTo({"a", " ", "\n"}, MaxMarkdownLen)

InitPost ==
    /\ IdlePipeline
    /\ header_footer_text = {}
    /\ IdleTable
    /\ IdleBlocks
    /\ IdleMerge
    /\ IdleUnit
    /\ IdleGroup
    /\ pc = "post_call"
    /\ raw_markdown \in MarkdownTexts
    /\ clean_markdown = << >>

PostProcessMarkdown ==
    /\ pc = "post_call"
    /\ clean_markdown' = _post_process_markdown(raw_markdown)
    /\ pc' = "post_returned"
    /\ UNCHANGED << raw_markdown, mergeVars, unitVars, groupVars >>
    /\ UNCHANGED << doc, plumber, pymupdf, exc, all_pages_text, header_footer_text,
                    page_num, tables_md, table_bboxes, images_md, image_bboxes,
                    text_md, md_content, md_file, md_writes, image_files, result >>
    /\ UNCHANGED << tableVars, blockVars, callVars >>

NextPost == PostProcessMarkdown

SpecPost == InitPost /\ [][NextPost]_vars

(***************************************************************************)
(* _detect_header, _detect_list_type and _group_lines_into_blocks on one   *)
(* line.                                                                   *)
(***************************************************************************)

MaxGroups == 4

\* n groups of digits with dots between them: "1", "1.1", "1.1.1", ...
RECURSIVE Groups(_)
Groups(n) == IF n <= 1 THEN << "1" >> ELSE Groups(n - 1) \o << ".", "1" >>

\* Section numbers of up to MaxGroups groups, with and without a dot at
\* the end.
NumberPrefixes ==
    { Groups(n) : n \in 1..MaxGroups } \cup { Groups(n) \o << "." >> : n \in 1..MaxGroups }

\* Lines that begin with a section number and white space; one of them of
\* more than 100 characters.
NumberedTexts ==
    { p \o << " ", "x" >> : p \in NumberPrefixes }
        \cup { Groups(2) \o << " " >> \o Repeat("x", 100) }

\* Lines that begin with a list marker, or with what looks like one.
MarkerTexts ==
    { << "BULLET", " ", "I", "t" >>,
      << "BULLET", "I", "t" >>,
      << "-", " ", "I", "t" >>,
      << "*", " ", "I", "t" >>,
      << "-", "I", "t" >>,
      << "(", "i", "v", ")", " ", "R" >>,
      << "(", "I", "V", ")", " ", "R" >>,
      << "(", "c", ")", " ", "x" >>,
      << "(", "a", ")", " ", "x" >>,
      << "a", ")", " ", "x" >>,
      << "A", ")", " ", "x" >>,
      << "1", "2", ".", " ", "i", "t", "e", "m" >>,
      << "3", ")", " ", "x" >>,
      << "1", "2", ")", " ", "y" >>,
      << "BULLET" >>,
      << "(", "i", "v", ")", "R" >>,
      << "(", "a", "b", ")", " ", "x" >> }

\* Lines of 4, 50 and 100 characters without number or marker.
PlainTexts == { << "p", "a", "r", "a" >>, Repeat("x", 50), Repeat("x", 100) }

OneLineTexts == NumberedTexts \cup MarkerTexts \cup PlainTexts

\* Font sizes at, just above and between the three thresholds, for an
\* average size of 100.
OneLineSizes == {100, 108, 109, 115, 116, 130, 131}

OneLineFonts == {"Helvetica", "Helvetica-Bold"}

OneLine(text, size, fontname) ==
    [ text     |-> text,
      x0       |-> 0,
      x1       |-> 5 * Len(text),
      top      |-> 20,
      bottom   |-> 20 + size,
      size     |-> size,
      fontname |-> fontname,
      chars    |-> << 1 >> ]

InitLine ==
    /\ IdlePipeline
    /\ header_footer_text = {}
    /\ IdleTable
    /\ IdleMerge
    /\ IdlePost
    /\ IdleGroup
    /\ \E text \in OneLineTexts, size \in OneLineSizes, fontname \in OneLineFonts :
           lines = << OneLine(text, size, fontname) >>
    /\ avg_font_size = [num |-> 100, den |-> 1]
    /\ merged_lines = << >>
    /\ blocks = << >>
    /\ detected = NoDetection
    /\ pc = "line"

\* The calls of lines 523-527 of _group_lines_into_blocks for the line.
DetectLine ==
    /\ pc = "line"
    /\ LET text == Strip(lines[1].text)
       IN  detected' = [ pc     |-> "detected",
                         header |-> _detect_header(lines[1], avg_font_size, Len(text)),
                         list   |-> _detect_list_type(text) ]
    /\ pc' = "detected"
    /\ UNCHANGED << blockVars, tableVars, callVars, mergeVars, postVars, groupVars >>
    /\ UNCHANGED << doc, plumber, pymupdf, exc, all_pages_text, header_footer_text,
                    page_num, tables_md, table_bboxes, images_md, image_bboxes,
                    text_md, md_content, md_file, md_writes, image_files, result >>

GroupLine ==
    /\ pc = "detected"
    /\ merged_lines' = _merge_section_numbers(lines)
    /\ blocks' = _group_lines_into_blocks(lines, avg_font_size, header_footer_text)
    /\ pc' = "line_blocks"
    /\ UNCHANGED << lines, avg_font_size, detected, tableVars, callVars, mergeVars, postVars, groupVars >>
    /\ UNCHANGED << doc, plumber, pymupdf, exc, all_pages_text, header_footer_text,
                    page_num, tables_md, table_bboxes, images_md, image_bboxes,
                    text_md, md_content, md_file, md_writes, image_files, result >>

NextLine == DetectLine \/ GroupLine

SpecLine == InitLine /\ [][NextLine]_vars

(***************************************************************************)
(* _group_chars_into_words and _group_words_into_lines, called alone on    *)
(* the characters of a page in the order of the PDF.                       *)
(***************************************************************************)

MaxChars == 4

Letters == << "a", "b", "c", "d", "e", "f" >>

\* The places a glyph can be at: side by side or after a gap, and on tops
\* that are the same, 2 apart (another word of the same line) and 3 or
\* more apart (another line).
GlyphPlaces == {0, 5, 20} \X {10, 12, 15}

\* Character i of the page, 5 wide and 10 high; its field id tells the
\* characters apart.
PlacedChar(place, i) ==
    [ text     |-> Letters[((i - 1) % Len(Letters)) + 1],
      x0       |-> place[1],
      x1       |-> place[1] + 5,
      top      |-> place[2],
      bottom   |-> place[2] + 10,
      size     |-> 10,
      fontname |-> "Helvetica",
      id       |-> i ]

InitChars ==
    /\ IdlePipeline
    /\ header_footer_text = {}
    /\ IdleTable
    /\ IdleBlocks
    /\ IdleMerge
    /\ IdlePost
    /\ IdleUnit
    /\ \E q \in SeqsUpTo(GlyphPlaces, MaxChars) :
           filtered_chars = [i \in 1..Len(q) |-> PlacedChar(q[i], i)]
    /\ grouped_words = << >>
    /\ grouped_lines = << >>
    /\ pc = "chars"

GroupCharsIntoWords ==
    /\ pc = "chars"
    /\ grouped_words' = _group_chars_into_words(filtered_chars)
    /\ pc' = "words"
    /\ UNCHANGED << filtered_chars, grouped_lines, mergeVars, postVars, unitVars >>
    /\ UNCHANGED << doc, plumber, pymupdf, exc, all_pages_text, header_footer_text,
                    page_num, tables_md, table_bboxes, images_md, image_bboxes,
                    text_md, md_content, md_file, md_writes, image_files, result >>
    /\ UNCHANGED << tableVars, blockVars, callVars >>

GroupWordsIntoLines ==
    /\ pc = "words"
    /\ grouped_lines' = _group_words_into_lines(grouped_words)
    /\ pc' = "word_lines"
    /\ UNCHANGED << filtered_chars, grouped_words, mergeVars, postVars, unitVars >>
    /\ UNCHANGED << doc, plumber, pymupdf, exc, all_pages_text, header_footer_text,
                    page_num, tables_md, table_bboxes, images_md, image_bboxes,
                    text_md, md_content, md_file, md_writes, image_files, result >>
    /\ UNCHANGED << tableVars, blockVars, callVars >>

NextChars == GroupCharsIntoWords \/ GroupWordsIntoLines

SpecChars == InitChars /\ [][NextChars]_vars

(***************************************************************************)
(* Calls of convert_pdf_to_markdown on one DocumentConverter: one after    *)
(* the other on the same PDF, and two at a time.                           *)
(***************************************************************************)

\* The locals of the running call, and the files it has written.
CurrentCall ==
    [ doc |-> doc,
      pc |-> pc,
      plumber |-> plumber,
      pymupdf |-> pymupdf,
      exc |-> exc,
      all_pages_text |-> all_pages_text,
      header_footer_text |-> header_footer_text,
      page_num |-> page_num,
      tables_md |-> tables_md,
      table_bboxes |-> table_bboxes,
      images_md |-> images_md,
      image_bboxes |-> image_bboxes,
      text_md |-> text_md,
      md_content |-> md_content,
      md_file |-> md_file,
      md_writes |-> md_writes,
      image_files |-> image_files,
      result |-> result ]

\* A call on document d that has not started: md_content = "" and so on.
StartCall(d) ==
    [ doc |-> d,
      pc |-> "makedirs",
      plumber |-> "unopened",
      pymupdf |-> "unopened",
      exc |-> "none",
      all_pages_text |-> << >>,
      header_footer_text |-> {},
      page_num |-> 0,
      tables_md |-> << >>,
      table_bboxes |-> << >>,
      images_md |-> << >>,
      image_bboxes |-> << >>,
      text_md |-> << >>,
      md_content |-> << >>,
      md_file |-> None,
      md_writes |-> 0,
      image_files |-> {},
      result |-> "running" ]

\* The body of the page loop, from page n on, as a function of the PDF.
RECURSIVE PagesMarkdown(_, _, _)
PagesMarkdown(d, n, hf) ==
    IF n >= Len(d) THEN << >>
    ELSE LET page == d[n + 1]
             tables == _extract_tables(page)
             images == _extract_images(page, n)
             text == _extract_text_with_layout(page, tables.table_bboxes,
                                               images.image_bboxes, hf)
         IN  _merge_content_by_position(text, tables.tables_md, images.images_md)
             \o << "\n", "\n" >> \o PagesMarkdown(d, n + 1, hf)

\* What one call that returns writes for the PDF d: the Markdown file and
\* the image files.
ConvertedAlone(d) ==
    [ md    |-> _post_process_markdown(
                    PagesMarkdown(d, 0, _detect_headers_footers(CollectPagesText(d, 0)))),
      files |-> UNION { _extract_images(d[n + 1], n).files : n \in 0..(Len(d) - 1) } ]

\* A variant in which md_content is kept from the call before.
Rerun_keeping_md_content ==
    /\ pc = "done"
    /\ result = "returned"
    /\ parked.pc = "none"
    /\ parked' = CurrentCall
    /\ doc' = doc
    /\ pc' = "makedirs"
    /\ plumber' = "unopened"
    /\ pymupdf' = "unopened"
    /\ exc' = "none"
    /\ all_pages_text' = << >>
    /\ header_footer_text' = {}
    /\ page_num' = 0
    /\ tables_md' = << >>
    /\ table_bboxes' = << >>
    /\ images_md' = << >>
    /\ image_bboxes' = << >>
    /\ text_md' = << >>
    /\ md_file' = None
    /\ md_writes' = 0
    /\ image_files' = {}
    /\ result' = "running"
    /\ UNCHANGED md_content
    /\ UNCHANGED << converter, active, tableVars, blockVars, helperVars >>

\* After it has returned, convert_pdf_to_markdown is called again on the
\* same PDF with the same parameters, the output directories emptied; the
\* call before is set aside.
Rerun ==
    /\ pc = "done"
    /\ result = "returned"
    /\ parked.pc = "none"
    /\ parked' = CurrentCall
    /\ doc' = doc
    /\ pc' = "makedirs"
    /\ plumber' = "unopened"
    /\ pymupdf' = "unopened"
    /\ exc' = "none"
    /\ all_pages_text' = << >>
    /\ header_footer_text' = {}
    /\ page_num' = 0
    /\ tables_md' = << >>
    /\ table_bboxes' = << >>
    /\ images_md' = << >>
    /\ image_bboxes' = << >>
    /\ text_md' = << >>
    /\ md_content' = << >>
    /\ md_file' = None
    /\ md_writes' = 0
    /\ image_files' = {}
    /\ result' = "running"
    /\ UNCHANGED << converter, active, tableVars, blockVars, helperVars >>

NextRerun == Next \/ Rerun

SpecRerun == Init /\ [][NextRerun]_vars

\* A variant in which md_content belongs to the converter and not to the call.
Switch_sharing_md_content ==
    /\ parked.pc # "none"
    /\ parked' = CurrentCall
    /\ doc' = parked.doc
    /\ pc' = parked.pc
    /\ plumber' = parked.plumber
    /\ pymupdf' = parked.pymupdf
    /\ exc' = parked.exc
    /\ all_pages_text' = parked.all_pages_text
    /\ header_footer_text' = parked.header_footer_text
    /\ page_num' = parked.page_num
    /\ tables_md' = parked.tables_md
    /\ table_bboxes' = parked.table_bboxes
    /\ images_md' = parked.images_md
    /\ image_bboxes' = parked.image_bboxes
    /\ text_md' = parked.text_md
    /\ md_file' = parked.md_file
    /\ md_writes' = parked.md_writes
    /\ image_files' = parked.image_files
    /\ result' = parked.result
    /\ UNCHANGED md_content
    /\ active' = 3 - active
    /\ UNCHANGED << converter, tableVars, blockVars, helperVars >>

\* The thread of the other call is scheduled: the running call is set
\* aside as it is, the other goes on where it was.
Switch ==
    /\ parked.pc # "none"
    /\ parked' = CurrentCall
    /\ doc' = parked.doc
    /\ pc' = parked.pc
    /\ plumber' = parked.plumber
    /\ pymupdf' = parked.pymupdf
    /\ exc' = parked.exc
    /\ all_pages_text' = parked.all_pages_text
    /\ header_footer_text' = parked.header_footer_text
    /\ page_num' = parked.page_num
    /\ tables_md' = parked.tables_md
    /\ table_bboxes' = parked.table_bboxes
    /\ images_md' = parked.images_md
    /\ image_bboxes' = parked.image_bboxes
    /\ text_md' = parked.text_md
    /\ md_content' = parked.md_content
    /\ md_file' = parked.md_file
    /\ md_writes' = parked.md_writes
    /\ image_files' = parked.image_files
    /\ result' = parked.result
    /\ active' = 3 - active
    /\ UNCHANGED << converter, tableVars, blockVars, helperVars >>

\* Pages of the PDFs converted at the same time.
ConcurrentPages ==
    { Page(HeadLine \o BodyLine,
           << GoodTable(<< 10, 45, 40, 70 >>) >>,
           << Image(<< << 0, 0, 5, 12 >> >>, "none") >>),
      Page(BodyLine \o FootLine, << >>,
           << Image(<< << 0, 70, 20, 80 >> >>, "extract_raises"),
              Image(<< << 30, 70, 50, 80 >> >>, "none") >>) }

MaxConcurrentPages == 1

ConcurrentDocs == SeqsUpTo(ConcurrentPages, MaxConcurrentPages)

InitConcurrent ==
    /\ doc \in ConcurrentDocs
    /\ pc = "makedirs"
    /\ plumber = "unopened"
    /\ pymupdf = "unopened"
    /\ exc = "none"
    /\ all_pages_text = << >>
    /\ header_footer_text = {}
    /\ page_num = 0
    /\ tables_md = << >>
    /\ table_bboxes = << >>
    /\ images_md = << >>
    /\ image_bboxes = << >>
    /\ text_md = << >>
    /\ md_content = << >>
    /\ md_file = None
    /\ md_writes = 0
    /\ image_files = {}
    /\ result = "running"
    /\ IdleTable
    /\ IdleBlocks
    /\ IdleHelpers
    /\ converter = ConverterFields
    /\ parked \in { StartCall(d) : d \in ConcurrentDocs }
    /\ active = 1

NextConcurrent == Next \/ Switch

SpecConcurrent == InitConcurrent /\ [][NextConcurrent]_vars

(***************************************************************************)
(* Properties                                                              *)
(***************************************************************************)

Range(seq) == { seq[i] : i \in 1..Len(seq) }

\* The page of the main loop.
CurrentPage == doc[page_num + 1]

\* The header/footer set has been computed and the main loop is running.
InPageLoop == pc \in {"tables", "images", "text", "merge"}

\* The lines of text of a page: all its characters, grouped.
LinesOfPage(page) == _group_words_into_lines(_group_chars_into_words(page.chars))

\* The texts of the lines in the top 15% of the height of page p.
TopZoneTexts(p) ==
    { Strip(l.text) : l \in { m \in Range(LinesOfPage(doc[p])) : m.top * 100 <= doc[p].height * 15 } }

\* t is the text of a line of more than 3 characters that lies in the top
\* zone of at least half of the pages.
RepeatedInTopZone(t) ==
    /\ Len(t) > 3
    /\ 2 * Cardinality({ p \in 1..Len(doc) : t \in TopZoneTexts(p) }) >= Len(doc)

\* C1: in a document of at least 3 pages, every line of more than 3
\* characters that lies in the top 15% of at least half of the pages is in
\* the set _detect_headers_footers returns, and no text block of any page
\* contains its text.
C1_HeaderDetectedAndAbsent ==
    (InPageLoop /\ Len(doc) >= 3) =>
        \A t \in UNION { TopZoneTexts(p) : p \in 1..Len(doc) } :
            RepeatedInTopZone(t) =>
                /\ t \in header_footer_text
                /\ pc = "merge" => \A b \in Range(text_md) : ~Contains(b.content, t)

\* The lines of the page of the main loop that _extract_text_with_layout
\* builds before any header/footer filtering, section numbers merged.
UnfilteredMergedLines ==
    _merge_section_numbers(PageLines(CurrentPage.chars, table_bboxes, image_bboxes))

CharsOf(items) == Flatten([i \in 1..Len(items) |-> items[i].chars])

RECURSIVE NonBlank(_)
NonBlank(ls) ==
    IF ls = << >> THEN << >>
    ELSE IF Strip(Head(ls).text) # << >> THEN << Head(ls) >> \o NonBlank(Tail(ls))
    ELSE NonBlank(Tail(ls))

\* C2: for a document of 1 or 2 pages the header/footer set is empty, and
\* the text blocks of a page are built from the characters of all its
\* non-blank lines: header/footer filtering removes no line.
C2_ShortDocumentKeepsAllLines ==
    Len(doc) <= 2 =>
        /\ header_footer_text = {}
        /\ pc = "merge" => CharsOf(text_md) = CharsOf(NonBlank(UnfilteredMergedLines))

\* A 2-page document with the same line at the top of both pages, which
\* is in a text block of the second page.
C2_Witness ==
    /\ pc = "merge"
    /\ Len(doc) = 2
    /\ page_num = 1
    /\ << "H", "E", "A", "D" >> \in TopZoneTexts(1) \cap TopZoneTexts(2)
    /\ \E b \in Range(text_md) : Contains(b.content, << "H", "E", "A", "D" >>)

\* Two boxes share a region of positive area.
AreaOverlap(c, z) ==
    /\ Max(c.x0, z[1]) < Min(c.x1, z[3])
    /\ Max(c.top, z[2]) < Min(c.bottom, z[4])

\* The exclusion zones of a page: the bbox of every table, and the first
\* rectangle of every image that has one.
ExclusionZones(page) ==
    { t.bbox : t \in Range(page.tables) }
    \cup { img.rects[1] : img \in { i \in Range(page.images) :
                                      i.rects # << >> /\ i.fault # "rects_raises" } }

\* C7: no character whose box overlaps an exclusion zone of its page is in
\* a word, a line or a text/list block of that page.
C7_NoExcludedCharacterInText ==
    pc = "merge" =>
        LET kept == FilteredChars(CurrentPage.chars, table_bboxes, image_bboxes)
            words == _group_chars_into_words(kept)
            page_lines == _group_words_into_lines(words)
        IN  \A z \in ExclusionZones(CurrentPage) :
                \A c \in Range(CharsOf(words)) \cup Range(CharsOf(page_lines))
                         \cup Range(CharsOf(text_md)) :
                    ~AreaOverlap(c, z)

\* A page with a character inside a table, one inside an image, and text.
C7_Witness ==
    /\ pc = "merge"
    /\ text_md # << >>
    /\ \E c \in Range(CurrentPage.chars) :
           \E k \in 1..Len(table_bboxes) : AreaOverlap(c, table_bboxes[k])
    /\ \E c \in Range(CurrentPage.chars) :
           \E k \in 1..Len(image_bboxes) : AreaOverlap(c, image_bboxes[k])

\* C3: when convert_pdf_to_markdown has returned or raised, no PDF handle
\* that was opened is still open.
C3_HandlesClosedOnExit ==
    pc = "done" => (plumber # "open" /\ pymupdf # "open")

\* C4: a failed conversion (directories, opening, page processing, closing)
\* has not created or modified the Markdown file; the file is written at
\* most once, only after every page was processed and both handles were
\* closed; and what a successful conversion wrote is the post-processed
\* Markdown.
C4_MarkdownWrittenOnceAtEnd ==
    /\ md_writes <= 1
    /\ md_writes = 0 => md_file = None
    /\ (result = "raised" /\ exc \notin {"write"}) => md_writes = 0
    /\ md_writes = 1 =>
           /\ pc = "done"
           /\ page_num = Len(doc)
           /\ plumber = "closed" /\ pymupdf = "closed"
    /\ result = "returned" =>
           /\ md_writes = 1
           /\ md_file = md_content
           /\ md_file = Strip(md_file)
           /\ ~Contains(md_file, << "\n", "\n", "\n" >>)

\* A conversion that failed after it had built Markdown for a page.
C4_Witness ==
    /\ pc = "done"
    /\ result = "raised"
    /\ exc \in {"table", "page"}
    /\ md_content # << >>
    /\ md_writes = 0
    /\ md_file = None

ImageSucceeds(img) == img.fault = "none" /\ img.rects # << >>

\* C5: after _extract_images, every image of the page whose extraction
\* succeeds has its Image block, whatever happened to the other images; no
\* exception left the method, and the tables of the page are still there.
C5_FailedImageSkippedAlone ==
    pc \in {"text", "merge"} =>
        LET imgs == CurrentPage.images
            ok == { k \in 1..Len(imgs) : ImageSucceeds(imgs[k]) }
        IN  /\ exc = "none"
            /\ Len(images_md) = Cardinality(ok)
            /\ \A k \in ok : \E j \in 1..Len(images_md) :
                   /\ images_md[j].type = "image"
                   /\ images_md[j].content = ImageLink(ImageFilename(page_num, k - 1, imgs[k].ext))
                   /\ images_md[j].y0 = imgs[k].rects[1][2]
            /\ tables_md = _extract_tables(CurrentPage).tables_md

\* A page with an image whose extraction raises before an image that is
\* extracted, with a table and with text, all produced.
C5_Witness ==
    /\ pc = "merge"
    /\ \E k \in 1..Len(CurrentPage.images) : \E j \in 1..Len(CurrentPage.images) :
           /\ k < j
           /\ CurrentPage.images[k].fault = "extract_raises"
           /\ ImageSucceeds(CurrentPage.images[j])
    /\ Len(images_md) = 1
    /\ tables_md # << >>
    /\ text_md # << >>

\* C6: a table whose extraction raises does not abort the conversion: with
\* no other failure, the conversion returns and the Markdown file is written.
C6_BadTableSkipped ==
    (pc = "done" /\ exc \in {"none", "table"}) => (result = "returned" /\ md_writes = 1)

\* The rows of a rendered table, and the number of cells the "|" of a
\* rendered row delimit.
RenderedRows(md) == Split(md, "\n")

RenderedCells(row) == Count(row, "|") - 1

\* C8: for a grid whose header row has H >= 1 columns, the rendered table
\* has one row for the header, one for the separator and one for each data
\* row, and every one of them has exactly H cells.
C8_EveryRowHasHeaderWidth ==
    (pc = "table_done" /\ table_data # << >> /\ Len(table_data[1]) >= 1) =>
        LET rows == RenderedRows(md_table)
        IN  /\ Len(rows) = Len(table_data) + 1
            /\ \A r \in 1..Len(rows) : RenderedCells(rows[r]) = Len(table_data[1])

\* C9: _table_to_markdown returns the empty string for [] and for [[]].
C9_EmptyGridsRenderEmpty ==
    (pc = "table_done" /\ table_data \in { << >>, << << >> >> }) => md_table = << >>

\* An integer followed by a dot, as "20.".
IsNumberDot(t) ==
    /\ Len(t) >= 2
    /\ t[Len(t)] = "."
    /\ \A k \in 1..(Len(t) - 1) : IsDigit(t[k])

\* A line that has text and is not itself a bare section number.
IsTextLine(t) == Strip(t) # << >> /\ ~section_number_pattern(Strip(t))

\* C10: a line that is only an integer with a trailing dot, immediately
\* followed by a text line, gives with it exactly one block, the level-1
\* heading "# " + number + " " + text; no other block is built from either
\* of the two lines.
C10_NumberLineMergedIntoHeading ==
    pc = "blocks" =>
        \A i \in 1..(Len(lines) - 1) :
            LET num == Strip(lines[i].text)
                text == Strip(lines[i + 1].text)
                from == { j \in 1..Len(blocks) :
                            \E c \in Range(blocks[j].chars) : c \in {i, i + 1} }
            IN  (IsNumberDot(num) /\ IsTextLine(lines[i + 1].text)) =>
                    /\ Cardinality(from) = 1
                    /\ \A j \in from :
                           /\ blocks[j].chars = << i, i + 1 >>
                           /\ blocks[j].content = << "#", " " >> \o num \o << " " >> \o text

\* A three-component section number, whitespace and text, as "1.1.1 Scope".
IsThreeComponentNumberLine(t) ==
    LET d1 == DigitsEnd(t, 1)
        d2 == DigitsEnd(t, d1 + 1)
        d3 == DigitsEnd(t, d2 + 1)
    IN  /\ d1 > 1 /\ At(t, d1) = "."
        /\ d2 > d1 + 1 /\ At(t, d2) = "."
        /\ d3 > d2 + 1 /\ IsSpace(At(t, d3))
        /\ Strip(SubSeq(t, d3, Len(t))) # << >>

\* Line i is not merged into a section number line before it.
NotAfterNumberLine(i) == i = 1 \/ ~section_number_pattern(Strip(lines[i - 1].text))

\* C11: a line whose text is a three-component section number followed by
\* text gives a level-3 heading that keeps the number: "### " + text.
C11_ThreeComponentNumberIsLevel3 ==
    pc = "blocks" =>
        \A i \in 1..Len(lines) :
            (IsThreeComponentNumberLine(Strip(lines[i].text)) /\ NotAfterNumberLine(i)) =>
                \E j \in 1..Len(blocks) :
                    /\ blocks[j].chars = << i >>
                    /\ blocks[j].content = << "#", "#", "#", " " >> \o Strip(lines[i].text)

\* s begins with t.
StartsWith(s, t) == Len(s) >= Len(t) /\ SubSeq(s, 1, Len(t)) = t

\* Line i is not a heading, and nothing before it takes it in.
PlainLine(i) ==
    /\ ~_detect_header(lines[i], avg_font_size, Len(Strip(lines[i].text))).is_header
    /\ NotAfterNumberLine(i)
    /\ Strip(lines[i].text) \notin header_footer_text

\* The List block that line i starts begins with content.
StartsListBlock(i, content) ==
    \E j \in 1..Len(blocks) :
        /\ blocks[j].type = "list"
        /\ Head(blocks[j].chars) = i
        /\ StartsWith(blocks[j].content, content)

\* C12: a line that is not a heading and starts with a bullet glyph gives a
\* List block "- " + the text after the glyph, at indent 0; one that starts
\* with a roman numeral in parentheses gives a List block of two spaces, the
\* marker as it is written, a space and the text after the marker.
C12_BulletAndRomanItems ==
    pc = "blocks" =>
        \A i \in 1..Len(lines) :
            LET text == Strip(lines[i].text)
                r == RomanMarkerEnd(text)
            IN  /\ (PlainLine(i) /\ Len(text) >= 2 /\ text[1] \in BulletGlyphs) =>
                       StartsListBlock(i, << "-", " " >> \o LStrip(Tail(text)))
                /\ (PlainLine(i) /\ r # 0) =>
                       StartsListBlock(i, << " ", " " >> \o SubSeq(text, 1, r - 1) \o << " " >>
                                          \o LStrip(SubSeq(text, r, Len(text))))

\* The non-blank lines that the loop of _group_lines_into_blocks goes over.
ScannedLines == NonBlank(_merge_section_numbers(lines))

\* What the loop takes a line for.
KindOfLine(l) ==
    IF _detect_header(l, avg_font_size, Len(Strip(l.text))).is_header THEN "heading"
    ELSE IF _detect_list_type(Strip(l.text)).is_list THEN "list"
    ELSE "plain"

\* a..b is a maximal run of scanned lines that are neither headings nor
\* list items.
MaximalPlainRun(a, b) ==
    LET sl == ScannedLines
    IN  /\ a <= b
        /\ \A k \in a..b : KindOfLine(sl[k]) = "plain"
        /\ a = 1 \/ KindOfLine(sl[a - 1]) # "plain"
        /\ b = Len(sl) \/ KindOfLine(sl[b + 1]) # "plain"

PlainRuns ==
    { r \in (1..Len(ScannedLines)) \X (1..Len(ScannedLines)) : MaximalPlainRun(r[1], r[2]) }

\* The blocks that hold a line of the run a..b.
BlocksOfRun(a, b) ==
    { j \in 1..Len(blocks) :
        \E k \in a..b : Range(ScannedLines[k].chars) \cap Range(blocks[j].chars) # {} }

RunText(a, b) == Join([k \in 1..(b - a + 1) |-> Strip(ScannedLines[a + k - 1].text)], << " " >>)

\* paragraph_text in ** when the font is bold, else in * when it is italic
Emphasised(fontname, paragraph_text) ==
    IF fontname \in {"Helvetica-Bold", "Times-BoldItalic"}
    THEN << "*", "*" >> \o paragraph_text \o << "*", "*" >>
    ELSE IF fontname \in {"Helvetica-Oblique"}
    THEN << "*" >> \o paragraph_text \o << "*" >>
    ELSE paragraph_text

NoScannedLineInHeaderFooterSet ==
    \A k \in 1..Len(ScannedLines) : Strip(ScannedLines[k].text) \notin header_footer_text

\* C13 as stated: every maximal run of lines that are neither headings nor
\* list items is exactly one paragraph block, whose text is the trimmed
\* line texts joined by single spaces, from the top of the first line to the
\* bottom of the last.
C13_EveryPlainRunIsOneParagraph ==
    pc = "blocks" =>
        \A r \in PlainRuns :
            /\ Cardinality(BlocksOfRun(r[1], r[2])) = 1
            /\ \A j \in BlocksOfRun(r[1], r[2]) :
                   /\ blocks[j].type = "text"
                   /\ blocks[j].content = RunText(r[1], r[2])
                   /\ blocks[j].y0 = ScannedLines[r[1]].top
                   /\ blocks[j].y1 = ScannedLines[r[2]].bottom

\* C13, amended: with no line in the header/footer set, a maximal run that
\* does not follow a list item is exactly one paragraph block: the trimmed
\* line texts joined by single spaces, in ** or * when the font of the first
\* line is bold or italic, from the top of the first line to the bottom of
\* the last; a maximal run that follows a list item is in the block of that
\* list item and in no other.
C13_PlainRunIsOneParagraphUnlessAfterListItem ==
    (pc = "blocks" /\ NoScannedLineInHeaderFooterSet) =>
        \A r \in PlainRuns :
            LET a == r[1]
                b == r[2]
                sl == ScannedLines
            IN  /\ Cardinality(BlocksOfRun(a, b)) = 1
                /\ \A j \in BlocksOfRun(a, b) :
                       IF a > 1 /\ KindOfLine(sl[a - 1]) = "list"
                       THEN /\ blocks[j].type = "list"
                            /\ Range(sl[a - 1].chars) \subseteq Range(blocks[j].chars)
                            /\ blocks[j].y1 = sl[b].bottom
                       ELSE /\ blocks[j].type = "text"
                            /\ blocks[j].content = Emphasised(sl[a].fontname, RunText(a, b))
                            /\ blocks[j].chars = CharsOf(SubSeq(sl, a, b))
                            /\ blocks[j].y0 = sl[a].top
                            /\ blocks[j].y1 = sl[b].bottom

\* Two plain lines after a heading, in one paragraph.
C13_Witness ==
    /\ pc = "blocks"
    /\ NoScannedLineInHeaderFooterSet
    /\ \E r \in PlainRuns :
           /\ r[1] = 2 /\ r[2] = 3
           /\ KindOfLine(ScannedLines[1]) = "heading"
           /\ \E j \in 1..Len(blocks) :
                  /\ blocks[j].type = "text"
                  /\ blocks[j].content = RunText(2, 3)
                  /\ Contains(blocks[j].content, << " " >>)

MergeInput == merge_text \o merge_tables \o merge_images

\* The place of block i in ascending order of y0, blocks of equal y0 in the
\* order of MergeInput.
Rank(i) ==
    1 + Cardinality({ j \in 1..Len(MergeInput) :
                        \/ MergeInput[j].y0 < MergeInput[i].y0
                        \/ MergeInput[j].y0 = MergeInput[i].y0 /\ j < i })

StreamLines == Split(page_content, "\n")

ContentLines == [i \in 1..Len(MergeInput) |-> Split(MergeInput[i].content, "\n")]

\* The lines of the stream sl at which the lines cl begin.
PositionsOf(sl, cl) ==
    { k \in 1..(Len(sl) - Len(cl) + 1) : \A n \in 1..Len(cl) : sl[k + n - 1] = cl[n] }

\* C16: the stream of a page has every block exactly once and nothing else
\* but blank lines, in ascending order of y0, blocks of equal y0 in the order
\* text/list blocks, tables, images.
C16_StreamIsStableSortByTop ==
    pc = "merge_returned" =>
        LET sl == StreamLines
            cl == ContentLines
            at == [i \in 1..Len(MergeInput) |-> PositionsOf(sl, cl[i])]
            rank == [i \in 1..Len(MergeInput) |-> Rank(i)]
        IN  /\ \A i \in 1..Len(MergeInput) : Cardinality(at[i]) = 1
            /\ \A i, j \in 1..Len(MergeInput) :
                   rank[i] < rank[j] => \A k \in at[i] : \A m \in at[j] : k < m
            /\ Cardinality({ k \in 1..Len(sl) : sl[k] # << >> })
                   = SeqSum([i \in 1..Len(MergeInput) |-> Len(cl[i])])

\* An image above a table and a paragraph of the same top, given in the
\* order paragraph, table, image.
C16_Witness ==
    /\ pc = "merge_returned"
    /\ Len(merge_text) >= 1 /\ Len(merge_tables) >= 1 /\ Len(merge_images) >= 1
    /\ merge_images[1].y0 < merge_text[1].y0
    /\ merge_tables[1].y0 = merge_text[1].y0
    /\ page_content # << >>

\* C17: between two adjacent blocks of the stream there is exactly one blank
\* line when they have different kinds or are both text or both list, and
\* none when they are both tables or both images; the stream does not begin
\* with a blank line.
C17_BlankLinesBetweenBlocks ==
    (pc = "merge_returned" /\ MergeInput # << >>) =>
        LET sl == StreamLines
            cl == ContentLines
            at == [i \in 1..Len(MergeInput) |-> PositionsOf(sl, cl[i])]
            rank == [i \in 1..Len(MergeInput) |-> Rank(i)]
        IN  /\ sl[1] # << >>
            /\ \A i, j \in 1..Len(MergeInput) :
                   rank[j] = rank[i] + 1 =>
                       \A k \in at[i] : \A m \in at[j] :
                           m - (k + Len(cl[i])) =
                               IF \/ MergeInput[i].type # MergeInput[j].type
                                  \/ MergeInput[i].type \in {"text", "list"}
                               THEN 1 ELSE 0

\* Two tables one after the other, two paragraphs one after the other, and
\* an image.
C17_Witness ==
    /\ pc = "merge_returned"
    /\ Len(merge_tables) = 2 /\ merge_tables[1].y0 = merge_tables[2].y0
    /\ Len(merge_text) = 2 /\ merge_text[1].y0 = merge_text[2].y0
    /\ merge_text[1].type = "text" /\ merge_text[2].type = "text"
    /\ Len(merge_images) >= 1
    /\ Contains(page_content, << "\n", "\n" >>)

IsNonBlankText(l) == Strip(l) # << >>

\* The indices of the non-blank lines of ls, in order.
NonBlankIndices(ls) ==
    LET nb == { i \in 1..Len(ls) : IsNonBlankText(ls[i]) }
    IN  [k \in 1..Cardinality(nb) |->
            CHOOSE i \in nb : Cardinality({ j \in nb : j <= i }) = k]

\* C18: the output of _post_process_markdown has no white space at its
\* beginning or end and no three line breaks in a row; its non-blank lines
\* are those of the input in the same order (the first and the last without
\* the white space that was trimmed), and between two of them there is one
\* empty line where the input has one or more blank lines, and none where
\* it has none.
C18_PostProcessedMarkdownIsClean ==
    pc = "post_returned" =>
        LET in_lines == Split(raw_markdown, "\n")
            out_lines == Split(clean_markdown, "\n")
            in_at == NonBlankIndices(in_lines)
            out_at == NonBlankIndices(out_lines)
            n == Len(in_at)
        IN  /\ clean_markdown = Strip(clean_markdown)
            /\ ~Contains(clean_markdown, << "\n", "\n", "\n" >>)
            /\ Len(out_at) = n
            /\ \A k \in 1..n : Strip(out_lines[out_at[k]]) = Strip(in_lines[in_at[k]])
            /\ \A k \in 2..(n - 1) : out_lines[out_at[k]] = in_lines[in_at[k]]
            /\ \A i \in 1..Len(out_lines) : out_lines[i] # << >> => IsNonBlankText(out_lines[i])
            /\ \A k \in 1..(n - 1) :
                   out_at[k + 1] - out_at[k] - 1 = Min(1, in_at[k + 1] - in_at[k] - 1)

\* Markdown that begins with white space and has three line breaks in a
\* row between two lines.
C18_Witness ==
    /\ pc = "post_returned"
    /\ raw_markdown # << >>
    /\ Head(raw_markdown) = " "
    /\ Contains(raw_markdown, << "a", "\n", "\n", "\n", "a" >>)
    /\ clean_markdown = << "a", "\n", "\n", "a" >>

\* The pages of the document on which t is a line of the header zone, and
\* those on which it is a line of the footer zone, the lines and the zones
\* being those of the detector.
HeaderZonePages(t) == { p \in 1..Len(doc) : t \in Range(ZoneLines(doc[p]).header_lines) }

FooterZonePages(t) == { p \in 1..Len(doc) : t \in Range(ZoneLines(doc[p]).footer_lines) }

\* C19: every text of the set _detect_headers_footers returns is non-empty
\* after trimming, is longer than 3 characters, and is a line of the header
\* zone of at least floor(pages/2) distinct pages or a line of the footer
\* zone of at least floor(pages/2) distinct pages, pages being the number
\* of pages of the document.
C19_DetectedOnlyIfRepeatedOnHalfThePages ==
    InPageLoop =>
        \A t \in header_footer_text :
            /\ Strip(t) # << >>
            /\ Len(t) > 3
            /\ \/ Cardinality(HeaderZonePages(t)) >= Len(doc) \div 2
               \/ Cardinality(FooterZonePages(t)) >= Len(doc) \div 2

\* The filter of _extract_text_with_layout has been applied to the lines:
\* none of them has a trimmed text of the header/footer set.
LinesAreFiltered ==
    \A i \in 1..Len(lines) : Strip(lines[i].text) \notin header_footer_text

\* C20: when _group_lines_into_blocks is given lines that passed the filter
\* of _extract_text_with_layout, no block it returns is built from a line,
\* after the merging of section numbers, whose trimmed text is an entry of
\* the header/footer set, neither as its first line nor as a continuation.
C20_NoBlockFromHeaderFooterLine ==
    (pc = "blocks" /\ LinesAreFiltered) =>
        \A k \in 1..Len(ScannedLines) :
            Strip(ScannedLines[k].text) \in header_footer_text =>
                \A j \in 1..Len(blocks) :
                    Range(ScannedLines[k].chars) \cap Range(blocks[j].chars) = {}

IsSectionNumberLine(l) == section_number_pattern(Strip(l.text))

\* C21: every input line of _merge_section_numbers is in exactly one output
\* line and the order is kept; an output line is an input line as it was,
\* or is made of two adjacent input lines of which the first is a section
\* number alone; a section number that is the last line and was not merged
\* into the line before it is passed through unchanged.
C21_OneMergePerNumberLine ==
    pc \in {"merged", "blocks"} =>
        /\ CharsOf(merged_lines) = [i \in 1..Len(lines) |-> i]
        /\ \A k \in 1..Len(merged_lines) :
               LET from == merged_lines[k].chars
               IN  \/ Len(from) = 1 /\ merged_lines[k] = lines[from[1]]
                   \/ /\ Len(from) = 2
                      /\ from[2] = from[1] + 1
                      /\ IsSectionNumberLine(lines[from[1]])
                      /\ merged_lines[k] = MergedLine(lines[from[1]], lines[from[2]])
        /\ \A k \in 1..Len(merged_lines) :
               (Len(merged_lines[k].chars) = 1 /\ ~IsSectionNumberLine(merged_lines[k]))
                   \/ Len(merged_lines[k].chars) = 2
                   \/ merged_lines[k].chars[1] = Len(lines)

\* Two section numbers followed by a line of text: the first number takes
\* the second, and the second is not merged again with the text.
C21_Witness ==
    /\ pc = "merged"
    /\ Len(lines) = 3
    /\ IsSectionNumberLine(lines[1])
    /\ IsSectionNumberLine(lines[2])
    /\ ~IsSectionNumberLine(lines[3])
    /\ Len(merged_lines) = 2
    /\ merged_lines[2] = lines[3]

\* The output lines of _merge_section_numbers made of two input lines,
\* each with the number line and the text line it was made of.
MergedPairs ==
    { [merged |-> merged_lines[k],
       number |-> lines[merged_lines[k].chars[1]],
       text   |-> lines[merged_lines[k].chars[2]]] :
          k \in { j \in 1..Len(merged_lines) : Len(merged_lines[j].chars) = 2 } }

\* C22: a merged line has the text number + " " + trimmed text of the text
\* line, a bounding box that contains the boxes of both lines on the left,
\* right, top and bottom, the larger of the two sizes and the font name of
\* the text line.
C22_MergedLineSpansBoth ==
    pc \in {"merged", "blocks"} =>
        \A m \in MergedPairs :
            /\ m.merged.text = Strip(m.number.text) \o << " " >> \o Strip(m.text.text)
            /\ m.merged.x0 <= m.number.x0 /\ m.merged.x0 <= m.text.x0
            /\ m.merged.x1 >= m.number.x1 /\ m.merged.x1 >= m.text.x1
            /\ m.merged.top <= m.number.top /\ m.merged.top <= m.text.top
            /\ m.merged.bottom >= m.number.bottom /\ m.merged.bottom >= m.text.bottom
            /\ m.merged.size = Max(m.number.size, m.text.size)
            /\ m.merged.fontname = m.text.fontname

\* The number of dots of a text.
Dots(p) == Cardinality({ i \in 1..Len(p) : p[i] = "." })

\* The section numbers with at least one dot: those the numbered-header
\* pattern accepts before white space.
DottedPrefixes == { p \in NumberPrefixes : Dots(p) >= 1 }

\* The one line of SpecLine and its trimmed text.
TheLine == lines[1]

TheText == Strip(TheLine.text)

\* C23: a line that begins with a section number of at least one dot and
\* white space is a heading of level 1 when the number has one dot, 2 when
\* it has two and 3 when it has three or more, whatever its size, weight
\* and length, and is rendered as that many "#", a space and the text.
C23_NumberedHeadingLevelByDots ==
    \A p \in DottedPrefixes :
        StartsWith(TheText, p \o << " " >>) =>
            LET level == IF Dots(p) <= 1 THEN 1 ELSE IF Dots(p) = 2 THEN 2 ELSE 3
            IN  /\ pc \in {"detected", "line_blocks"} =>
                       detected.header = [is_header |-> TRUE, level |-> level]
                /\ pc = "line_blocks" =>
                       /\ Len(blocks) = 1
                       /\ blocks[1].type = "text"
                       /\ blocks[1].content = Repeat("#", level) \o << " " >> \o TheText

\* A bold line of the largest size and of more than 100 characters that
\* begins with "1.1 ": a heading of level 1 by its number.
C23_Witness ==
    /\ pc = "line_blocks"
    /\ StartsWith(TheText, << "1", ".", "1", " " >>)
    /\ Len(TheText) > 100
    /\ TheLine.size = 131
    /\ TheLine.fontname = "Helvetica-Bold"
    /\ StartsWith(blocks[1].content, << "#", " ", "1" >>)

\* line.size / avg_font_size > hundredths / 100
SizeRatioOver(hundredths) ==
    TheLine.size * avg_font_size.den * 100 > hundredths * avg_font_size.num

HeadingOfLevel(level) ==
    /\ detected.header = [is_header |-> TRUE, level |-> level]
    /\ Len(blocks) = 1
    /\ blocks[1].content = Repeat("#", level) \o << " " >> \o TheText

\* C24: a line without number or marker is a heading of level 1 when its
\* size is more than 1.3 times the average, of level 2 when it is more
\* than 1.15 times and at most 1.3 times the average, and, when it is more
\* than 1.08 and at most 1.15 times the average, of level 3 if it is bold
\* or shorter than 100 characters and no heading otherwise; a size of
\* exactly 1.3, 1.15 or 1.08 times the average is not above that threshold.
C24_HeadingLevelBySizeRatio ==
    (pc = "line_blocks" /\ TheText \in PlainTexts) =>
        /\ SizeRatioOver(130) => HeadingOfLevel(1)
        /\ (SizeRatioOver(115) /\ ~SizeRatioOver(130)) => HeadingOfLevel(2)
        /\ (SizeRatioOver(108) /\ ~SizeRatioOver(115)) =>
               IF _is_bold(TheLine.fontname) \/ Len(TheText) < 100
               THEN HeadingOfLevel(3)
               ELSE ~detected.header.is_header

\* The text begins with digits, a dot and white space; n is the position
\* of the dot.
DigitsDotAt(text, n) ==
    /\ n > 1
    /\ n < Len(text)
    /\ \A i \in 1..(n - 1) : IsDigit(text[i])
    /\ text[n] = "."
    /\ IsSpace(text[n + 1])

\* C25: a line for which _detect_header answers yes is one heading block,
\* also when its text begins with a list marker; a line that begins with
\* digits, a dot and white space, such as "12. item", and that is neither
\* larger than 1.08 times the average nor bold, is one List block of
\* indent 0 with the digits and the dot as its marker.
C25_HeadingBeforeListAndNumberedItem ==
    pc = "line_blocks" =>
        /\ detected.header.is_header =>
               /\ Len(blocks) = 1
               /\ blocks[1].type = "text"
               /\ blocks[1].content =
                      Repeat("#", detected.header.level) \o << " " >> \o TheText
        /\ \A n \in 1..Len(TheText) :
               (DigitsDotAt(TheText, n) /\ ~SizeRatioOver(108) /\ ~_is_bold(TheLine.fontname)) =>
                   /\ Len(blocks) = 1
                   /\ blocks[1].type = "list"
                   /\ blocks[1].content =
                          SubSeq(TheText, 1, n) \o << " " >>
                              \o LStrip(SubSeq(TheText, n + 1, Len(TheText)))

\* The marker patterns, each with the position n at which the marker ends;
\* every marker but a bullet glyph is followed by white space.
BulletOrDash(text) ==
    text[1] \in BulletGlyphs \/ (text[1] \in DashGlyphs /\ text[2] = " ")

RomanInParens(text, n) ==
    /\ n > 2
    /\ n < Len(text)
    /\ text[1] = "("
    /\ \A i \in 2..(n - 1) : IsRoman(text[i])
    /\ text[n] = ")"
    /\ IsSpace(text[n + 1])

LetterMarker(text, n) ==
    /\ n < Len(text)
    /\ \/ n = 3 /\ text[1] = "(" /\ IsLower(text[2])
       \/ n = 2 /\ IsLower(text[1])
    /\ text[n] = ")"
    /\ IsSpace(text[n + 1])

DigitsParenAt(text, n) ==
    /\ n > 1
    /\ n < Len(text)
    /\ \A i \in 1..(n - 1) : IsDigit(text[i])
    /\ text[n] = ")"
    /\ IsSpace(text[n + 1])

\* What the first matching pattern gives for a text, in the order bullet or
\* dash, roman numeral, letter, digits and dot, digits and parenthesis.
FirstMarkerMatch(text) ==
    LET ends == 1..Len(text)
        marker(n) == SubSeq(text, 1, n)
    IN  IF BulletOrDash(text) THEN ListItem(<< "-" >>, 0)
        ELSE IF \E n \in ends : RomanInParens(text, n)
             THEN ListItem(marker(CHOOSE n \in ends : RomanInParens(text, n)), 1)
        ELSE IF \E n \in ends : LetterMarker(text, n)
             THEN ListItem(marker(CHOOSE n \in ends : LetterMarker(text, n)), 2)
        ELSE IF \E n \in ends : DigitsDotAt(text, n)
             THEN ListItem(marker(CHOOSE n \in ends : DigitsDotAt(text, n)), 0)
        ELSE IF \E n \in ends : DigitsParenAt(text, n)
             THEN ListItem(marker(CHOOSE n \in ends : DigitsParenAt(text, n)), 0)
        ELSE NotList

AfterMarker(text, item) ==
    LET n == IF BulletOrDash(text) THEN 1 ELSE Len(item.marker)
    IN  LStrip(SubSeq(text, n + 1, Len(text)))

\* C27: a List block is two spaces per indent level, the marker, one space
\* and the text of the item with the marker prefix, and nothing else, taken
\* off its beginning, for each of the five kinds of marker.
C27_ListItemRenderedWithoutItsMarker ==
    (pc = "line_blocks" /\ Len(blocks) = 1 /\ blocks[1].type = "list") =>
        blocks[1].content =
            Repeat(" ", 2 * detected.list.indent) \o detected.list.marker \o << " " >>
                \o AfterMarker(TheText, detected.list)

\* The ids of the characters of a word or of a line.
IdsOf(item) == { item.chars[i].id : i \in 1..Len(item.chars) }

\* The words of line k.
WordsOfLine(k) ==
    { i \in 1..Len(grouped_words) : IdsOf(grouped_words[i]) \subseteq IdsOf(grouped_lines[k]) }

\* The ways to put the words of the set S in a row from left to right.
LeftToRight(S) ==
    { f \in [1..Cardinality(S) -> S] :
          /\ \A a, b \in 1..Cardinality(S) : a # b => f[a] # f[b]
          /\ \A a \in 1..(Cardinality(S) - 1) :
                 grouped_words[f[a]].x0 <= grouped_words[f[a + 1]].x0 }

\* C28: the words of _group_chars_into_words, one after the other, are the
\* characters it was given, each once; every word is in exactly one line
\* of _group_words_into_lines and the lines have no other characters; the
\* lines are in non-decreasing order of top; and the text of a line is the
\* texts of its words from left to right by x0, joined by spaces.
C28_WordsAndLinesPartition ==
    /\ pc \in {"words", "word_lines"} => CharsOf(grouped_words) = filtered_chars
    /\ pc = "word_lines" =>
           /\ \A i \in 1..Len(grouped_words) :
                  Cardinality({ k \in 1..Len(grouped_lines) : i \in WordsOfLine(k) }) = 1
           /\ Len(CharsOf(grouped_lines)) = Len(filtered_chars)
           /\ \A k \in 1..Len(grouped_lines) :
                  UNION { IdsOf(grouped_words[i]) : i \in WordsOfLine(k) } = IdsOf(grouped_lines[k])
           /\ \A k \in 1..(Len(grouped_lines) - 1) :
                  grouped_lines[k].top <= grouped_lines[k + 1].top
           /\ \A k \in 1..Len(grouped_lines) :
                  \E f \in LeftToRight(WordsOfLine(k)) :
                      grouped_lines[k].text =
                          Join([a \in 1..Len(f) |-> grouped_words[f[a]].text], << " " >>)

\* Two lines; in the first the word on the right comes first in the page
\* and lies higher than the word of two characters on its left.
C28_Witness ==
    /\ pc = "word_lines"
    /\ Len(grouped_words) = 3
    /\ Len(grouped_lines) = 2
    /\ grouped_words[1].x0 = 20
    /\ grouped_words[1].top < grouped_words[2].top
    /\ grouped_lines[1].text = << "b", "c", " ", "a" >>

\* The index at which the outer loop of _group_lines_into_blocks goes on
\* after the iteration that begins at merged line i.
NextIndexAfter(ml, i) ==
    LET text == Strip(ml[i].text)
        header == _detect_header(ml[i], avg_font_size, Len(text))
    IN  IF text = << >> \/ (header.is_header /\ header.level # 0) THEN i + 1
        ELSE Lookahead(ml, i + 1, avg_font_size, header_footer_text,
                       StartRun(ml[i], text, i)).at

\* The blocks that hold the input lines of which merged line l was made.
BlocksWith(l) ==
    { j \in 1..Len(blocks) : Range(l.chars) \cap Range(blocks[j].chars) # {} }

\* C29: every iteration of the loop of _group_lines_into_blocks goes on at
\* a later index, at most one past the last line; every merged line with a
\* non-empty trimmed text that is not in the header/footer set is in
\* exactly one block, whole, and the content of that block contains its
\* text, unless it is the first line of a list item, whose marker is
\* replaced; the blocks are in the order of the lines and their y0 does
\* not decrease.
C29_LoopAdvancesAndConservesText ==
    pc = "blocks" =>
        LET ml == _merge_section_numbers(lines)
        IN  /\ \A i \in 1..Len(ml) :
                   NextIndexAfter(ml, i) > i /\ NextIndexAfter(ml, i) <= Len(ml) + 1
            /\ \A i \in 1..Len(ml) :
                   LET text == Strip(ml[i].text)
                   IN  (text # << >> /\ text \notin header_footer_text) =>
                           /\ Cardinality(BlocksWith(ml[i])) = 1
                           /\ \A j \in BlocksWith(ml[i]) :
                                  /\ Range(ml[i].chars) \subseteq Range(blocks[j].chars)
                                  /\ \/ Contains(blocks[j].content, text)
                                     \/ /\ blocks[j].type = "list"
                                        /\ blocks[j].chars[1] = ml[i].chars[1]
            /\ \A j \in 1..(Len(blocks) - 1) :
                   /\ blocks[j].chars[Len(blocks[j].chars)] < blocks[j + 1].chars[1]
                   /\ blocks[j].y0 <= blocks[j + 1].y0

\* A paragraph of two lines, the line of the header/footer set between
\* them left out.
C29_Witness ==
    /\ pc = "blocks"
    /\ Len(lines) = 3
    /\ Strip(lines[2].text) \in header_footer_text
    /\ Len(blocks) = 1
    /\ blocks[1].chars = << 1, 3 >>
    /\ blocks[1].content = << "p", "a", "r", "a", " ", "i", "t", "a", "l" >>

\* The boxes of the tables and of the images for which a block of the
\* page is emitted.
EmittedZones ==
    { table_bboxes[i] : i \in { k \in 1..Len(table_bboxes) :
          \E j \in 1..Len(tables_md) :
              tables_md[j].y0 = table_bboxes[k][2] /\ tables_md[j].y1 = table_bboxes[k][4] } }
    \cup { image_bboxes[i] : i \in { k \in 1..Len(image_bboxes) :
          \E j \in 1..Len(images_md) :
              images_md[j].y0 = image_bboxes[k][2] /\ images_md[j].y1 = image_bboxes[k][4] } }

\* Among the boxes bs there are no more from y0 to y1 than there are
\* blocks from y0 to y1 in md.
EachHasBlock(bs, md) ==
    \A k \in 1..Len(bs) :
        Cardinality({ i \in 1..Len(bs) : bs[i][2] = bs[k][2] /\ bs[i][4] = bs[k][4] })
            <= Cardinality({ j \in 1..Len(md) : md[j].y0 = bs[k][2] /\ md[j].y1 = bs[k][4] })

\* C30: every box that _extract_text_with_layout is given as an exclusion
\* zone is the box of a table or image for which a block of the page is
\* emitted, and, when no header or footer was detected, every character
\* of the page that is not white space and overlaps no box of an emitted
\* table or image is in a text block of the page.
C30_TextExcludedOnlyUnderEmittedElement ==
    pc = "merge" =>
        /\ EachHasBlock(table_bboxes, tables_md)
        /\ EachHasBlock(image_bboxes, images_md)
        /\ header_footer_text = {} =>
               \A c \in Range(CurrentPage.chars) :
                   (~IsSpace(c.text) /\ \A z \in EmittedZones : ~BoxOverlap(CharBox(c), z)) =>
                       c \in Range(CharsOf(text_md))

=============================================================================
